---- MODULE Spec2Model ----
(***************************************************************************)
(* Blueprint introspection of the UnrealMCP plugin                         *)
(* (FUnrealMCPBlueprintIntrospection): a request names a blueprint, the    *)
(* handler looks it up and walks the live object model (graphs, nodes,     *)
(* pins, links, component templates, variables) into a JSON document.      *)
(*                                                                         *)
(* The live object model is a heap of objects addressed by identity (the   *)
(* index in nodeHeap, pinHeap, graphHeap); a reference is an index or      *)
(* Null.  The host editor mutates the model between requests, on the      *)
(* thread that serves them; the document of a request is handed back       *)
(* before the model changes again.  Each line the handler logs is a call   *)
(* of its own into the log capture device, which any thread may call: a    *)
(* request is followed from line to line wherever another thread is there  *)
(* to log in between, and to its return in one action otherwise.           *)
(***************************************************************************)
EXTENDS Integers, Sequences, FiniteSets, TLC

\* ------------------------------------------------------------ bounds
MaxNodes == 2        \* node objects alive at once
MaxPins == 3         \* pins a node is created with
MaxLinks == 2        \* link-list entries in the whole model
MaxGraphs == 2       \* graph objects alive at once
MaxComponents == 3   \* entries of the component-node list
MaxFuncNodes == 3    \* nodes of a function graph
MaxLocals == 1       \* local variables of a function
MaxVariables == 2    \* declared variables of the blueprint
MaxSerialized == 3   \* Serialize calls in a behaviour
MaxCapacity == 2     \* capacity a capture device is constructed with
MaxLimit == 2        \* MaxEntriesToReturn of a GetLogEntries call
MaxGuid == 2         \* distinct NodeGuid values the host gives out
MaxStartups == 3     \* StartupModule calls in a behaviour
MaxLogged == 9       \* lines the module's device captures before a behaviour is cut off
MaxOtherLines == 1   \* lines another thread logs into one device
MaxKept == 2         \* documents of earlier calls the caller still holds

\* nullptr: a reference that names no object
Null == 0

VARIABLES
    nodeHeap,    \* UEdGraphNode objects
    pinHeap,     \* UEdGraphPin objects
    graphHeap,   \* UEdGraph objects
    Blueprint,   \* the UBlueprint the lookup finds
    response,    \* the document the last request returned, until handed back
    calls,       \* the extractor calls of the last request, in call order
    request,     \* the request being answered: its command type and parameters
    kept,        \* the documents of earlier requests the caller has kept
    LogCaptureDevice,  \* the FMCPLogCaptureDevice: its buffer, indices and lock
    serialized,  \* every entry stored by Serialize so far, in storing order
    threads,      \* each calling thread: the call it is in, its position, its result
    UnrealMCPModule   \* the plugin module: its device pointer, the devices of GLog

model == <<nodeHeap, pinHeap, graphHeap, Blueprint>>
log == <<LogCaptureDevice, serialized, threads, UnrealMCPModule>>
introspection == <<nodeHeap, pinHeap, graphHeap, Blueprint, response, calls, request, kept>>
vars == <<nodeHeap, pinHeap, graphHeap, Blueprint, response, calls, request, kept,
          LogCaptureDevice, serialized, threads, UnrealMCPModule>>

\* ------------------------------------------------------------ helpers
\* A JSON object with one more field set (SetStringField and the like).
SetField(obj, key, val) == [k \in (DOMAIN obj) \cup {key} |-> IF k = key THEN val ELSE obj[k]]

EmptyObject == [k \in {} |-> Null]     \* MakeShared<FJsonObject>()

HasField(obj, key) == key \in DOMAIN obj

RECURSIVE Flatten(_)
Flatten(ss) == IF ss = <<>> THEN <<>> ELSE Head(ss) \o Flatten(Tail(ss))

Range(s) == {s[i] : i \in 1..Len(s)}

NotNull(x) == x # Null

\* A pointer to an object the model holds by value.
None == <<>>
Some(x) == <<x>>

\* ------------------------------------------------------------ the object model
EGPD_Input == "EGPD_Input"
EGPD_Output == "EGPD_Output"
PC_Exec == "exec"
NAME_None == "None"

\* The node classes the extractors cast to.  A node's Casts is the set of classes
\* Cast<> succeeds for.
NodeClasses == {"K2Node_Event", "K2Node_CallFunction", "K2Node_VariableGet",
                "K2Node_VariableSet", "K2Node_CustomEvent",
                "K2Node_FunctionEntry", "K2Node_FunctionResult"}

Cast(class, n) == class \in nodeHeap[n].Casts

\* ------------------------------------------------------------ ExtractGraphData
GuidToString(g) == g        \* FGuid::ToString: one string per guid value

\* node_category and the name field of the first class that matches.
NodeCategoryFields(NodeObj, n) ==
    LET N == nodeHeap[n] IN
    IF Cast("K2Node_Event", n) THEN
        LET o == SetField(NodeObj, "node_category", "event") IN
        IF N.MemberNameValid THEN SetField(o, "event_name", N.MemberName) ELSE o
    ELSE IF Cast("K2Node_CallFunction", n) THEN
        LET o == SetField(NodeObj, "node_category", "function_call") IN
        IF N.MemberNameValid THEN SetField(o, "function_name", N.MemberName) ELSE o
    ELSE IF Cast("K2Node_VariableGet", n) THEN
        LET o == SetField(NodeObj, "node_category", "variable_get") IN
        IF N.MemberNameValid THEN SetField(o, "variable_name", N.MemberName) ELSE o
    ELSE IF Cast("K2Node_VariableSet", n) THEN
        LET o == SetField(NodeObj, "node_category", "variable_set") IN
        IF N.MemberNameValid THEN SetField(o, "variable_name", N.MemberName) ELSE o
    ELSE IF Cast("K2Node_CustomEvent", n) THEN
        SetField(SetField(NodeObj, "node_category", "custom_event"),
                 "event_name", N.CustomFunctionName)
    ELSE SetField(NodeObj, "node_category", "other")

\* PinObj counting only the links the connection loop emits.
PinObj_CountsEmitted(p) ==
    [id |-> p,
     name |-> pinHeap[p].PinName,
     type |-> pinHeap[p].PinCategory,
     direction |-> IF pinHeap[p].Direction = EGPD_Input THEN "input" ELSE "output",
     connection_count |->
         Cardinality({k \in 1..Len(pinHeap[p].LinkedTo) :
             /\ pinHeap[p].LinkedTo[k] # Null
             /\ pinHeap[pinHeap[p].LinkedTo[k]].OwningNode # Null})]

PinObj(p) ==
    [id |-> p,
     name |-> pinHeap[p].PinName,
     type |-> pinHeap[p].PinCategory,
     direction |-> IF pinHeap[p].Direction = EGPD_Input THEN "input" ELSE "output",
     connection_count |-> Len(pinHeap[p].LinkedTo)]

NodeObjOf(n) ==
    SetField(NodeCategoryFields([id |-> GuidToString(nodeHeap[n].NodeGuid)], n),
             "pins", (LET xs == SelectSeq(nodeHeap[n].Pins, NotNull) IN [i \in 1..Len(xs) |-> PinObj(xs[i])]))

\* NodesArray leaving the loop at the first null entry of Graph->Nodes.
NodesArray_StopAtNull(g) ==
    LET ns == graphHeap[g].Nodes
        nulls == {k \in 1..Len(ns) : ns[k] = Null}
        xs == IF nulls = {} THEN ns
              ELSE SubSeq(ns, 1, (CHOOSE k \in nulls : \A m \in nulls : k <= m) - 1)
    IN  [i \in 1..Len(xs) |-> NodeObjOf(xs[i])]

\* The first loop: one record per non-null entry of Graph->Nodes.
NodesArray(g) == (LET xs == SelectSeq(graphHeap[g].Nodes, NotNull) IN [i \in 1..Len(xs) |-> NodeObjOf(xs[i])])

LinkEmitted(q) == q # Null /\ pinHeap[q].OwningNode # Null

\* ConnObj with the two ends exchanged.
ConnObj_Reversed(n, p, q) ==
    [from_node |-> GuidToString(nodeHeap[pinHeap[q].OwningNode].NodeGuid),
     from_pin |-> q,
     from_pin_name |-> pinHeap[q].PinName,
     to_node |-> GuidToString(nodeHeap[n].NodeGuid),
     to_pin |-> p,
     to_pin_name |-> pinHeap[p].PinName]

ConnObj(n, p, q) ==
    [from_node |-> GuidToString(nodeHeap[n].NodeGuid),
     from_pin |-> p,
     from_pin_name |-> pinHeap[p].PinName,
     to_node |-> GuidToString(nodeHeap[pinHeap[q].OwningNode].NodeGuid),
     to_pin |-> q,
     to_pin_name |-> pinHeap[q].PinName]

\* PinConnections without the direction test: input pins emit their links too.
PinConnections_AnyDirection(n, p) ==
    LET ls == SelectSeq(pinHeap[p].LinkedTo, LinkEmitted)
    IN  [i \in 1..Len(ls) |-> ConnObj(n, p, ls[i])]

PinConnections(n, p) ==
    IF pinHeap[p].Direction = EGPD_Output
    THEN LET ls == SelectSeq(pinHeap[p].LinkedTo, LinkEmitted)
         IN  [i \in 1..Len(ls) |-> ConnObj(n, p, ls[i])]
    ELSE <<>>

NodeConnections(n) ==
    LET ps == SelectSeq(nodeHeap[n].Pins, NotNull)
    IN  Flatten([i \in 1..Len(ps) |-> PinConnections(n, ps[i])])

\* The second loop: the links of the output pins of the listed nodes.
ConnectionsArray(g) ==
    LET ns == SelectSeq(graphHeap[g].Nodes, NotNull)
    IN  Flatten([i \in 1..Len(ns) |-> NodeConnections(ns[i])])

\* NodeGuidToIndex after the first loop: TMap::Add per non-null node with the
\* node's ordinal (from 0), a later Add of the same guid replacing the earlier.
NodeGuidToIndex(g) ==
    LET xs == SelectSeq(graphHeap[g].Nodes, NotNull)
        Key(i) == nodeHeap[xs[i]].NodeGuid
    IN  [k \in {Key(i) : i \in 1..Len(xs)} |->
            (CHOOSE i \in 1..Len(xs) :
                Key(i) = k /\ \A j \in 1..Len(xs) : Key(j) = k => j <= i) - 1]

NodeCountOf(g) == Len(graphHeap[g].Nodes)      \* Graph->Nodes.Num()

ExtractGraphData(g) ==
    IF g = Null THEN EmptyObject
    ELSE [nodes |-> NodesArray(g),
          connections |-> ConnectionsArray(g),
          node_count |-> NodeCountOf(g),
          connection_count |-> Len(ConnectionsArray(g))]

\* ------------------------------------------------------------ ExtractFunctions
\* UBlueprint::GetAllGraphs: the non-null function graphs, macro graphs and
\* ubergraph pages, in that order.
GetAllGraphs(bp) ==
    SelectSeq(bp.FunctionGraphs, NotNull) \o SelectSeq(bp.MacroGraphs, NotNull)
        \o SelectSeq(bp.UbergraphPages, NotNull)

\* IsEventGraph deciding by name: some page has the graph's name.
IsEventGraph_ByName(bp, g) ==
    \E i \in 1..Len(bp.UbergraphPages) :
        bp.UbergraphPages[i] # Null
            /\ graphHeap[g].Name = graphHeap[bp.UbergraphPages[i]].Name

\* bIsEventGraph: Graph == UberGraph for some page, by object identity.
IsEventGraph(bp, g) == \E i \in 1..Len(bp.UbergraphPages) : g = bp.UbergraphPages[i]

\* The first entry of a node list that casts to `class`, or Null.
FirstCast(ns, class) ==
    LET IsIt(n) == n # Null /\ Cast(class, n)
        hits == SelectSeq(ns, IsIt)
    IN  IF hits = <<>> THEN Null ELSE Head(hits)

\* The last entry of a node list that casts to `class`, or Null.
LastCast(ns, class) ==
    LET IsIt(n) == n # Null /\ Cast(class, n)
        hits == SelectSeq(ns, IsIt)
    IN  IF hits = <<>> THEN Null ELSE hits[Len(hits)]

\* FindEntryNode without the break: the last function-entry node of the list.
FindEntryNode_Last(g) == LastCast(graphHeap[g].Nodes, "K2Node_FunctionEntry")

FindEntryNode(g) == FirstCast(graphHeap[g].Nodes, "K2Node_FunctionEntry")

FindResultNode(g) == FirstCast(graphHeap[g].Nodes, "K2Node_FunctionResult")

\* The graphs ExtractFunctions emits a record for, in emission order.
IsFunctionGraph(bp, g) == ~IsEventGraph(bp, g) /\ FindEntryNode(g) # Null

FunctionSources(bp) ==
    LET Emitted(g) == IsFunctionGraph(bp, g)
    IN  SelectSeq(GetAllGraphs(bp), Emitted)

ParamObj(p) == [name |-> pinHeap[p].PinName, type |-> pinHeap[p].PinCategory]

IsInputParam(p) ==
    p # Null /\ pinHeap[p].Direction = EGPD_Output /\ pinHeap[p].PinCategory # PC_Exec

IsOutputParam(p) ==
    p # Null /\ pinHeap[p].Direction = EGPD_Input /\ pinHeap[p].PinCategory # PC_Exec

InputsArray(entry) == (LET xs == SelectSeq(nodeHeap[entry].Pins, IsInputParam) IN [i \in 1..Len(xs) |-> ParamObj(xs[i])])

\* OutputsArray collecting the pins of every function-result node of the graph.
OutputsArray_AllResultNodes(g) ==
    LET IsResult(n) == n # Null /\ Cast("K2Node_FunctionResult", n)
        rs == SelectSeq(graphHeap[g].Nodes, IsResult)
        pins == Flatten([i \in 1..Len(rs) |-> nodeHeap[rs[i]].Pins])
        xs == SelectSeq(pins, IsOutputParam)
    IN  [i \in 1..Len(xs) |-> ParamObj(xs[i])]

OutputsArray(g) ==
    LET r == FindResultNode(g)
    IN  IF r = Null THEN <<>>
        ELSE (LET xs == SelectSeq(nodeHeap[r].Pins, IsOutputParam) IN [i \in 1..Len(xs) |-> ParamObj(xs[i])])

LocalVarObj(v) == [name |-> v.VarName, type |-> v.PinCategory]

LocalVarsArray(entry) == (LET xs == nodeHeap[entry].LocalVariables IN [i \in 1..Len(xs) |-> LocalVarObj(xs[i])])

\* AccessSpecifier testing the protected bit before the private bit.
AccessSpecifier_ProtectedFirst(entry) ==
    IF "FUNC_Protected" \in nodeHeap[entry].FunctionFlags THEN "protected"
    ELSE IF "FUNC_Private" \in nodeHeap[entry].FunctionFlags THEN "private"
    ELSE "public"

AccessSpecifier(entry) ==
    IF "FUNC_Private" \in nodeHeap[entry].FunctionFlags THEN "private"
    ELSE IF "FUNC_Protected" \in nodeHeap[entry].FunctionFlags THEN "protected"
    ELSE "public"

FuncObj(g) ==
    LET entry == FindEntryNode(g)
    IN  [name |-> graphHeap[g].Name,
         category |-> nodeHeap[entry].Category,
         description |-> nodeHeap[entry].ToolTip,
         is_pure |-> nodeHeap[entry].bCallInEditor,
         access_specifier |-> AccessSpecifier(entry),
         inputs |-> InputsArray(entry),
         outputs |-> OutputsArray(g),
         local_variables |-> LocalVarsArray(entry),
         graph |-> ExtractGraphData(g)]

ExtractFunctions(bp) == (LET xs == FunctionSources(bp) IN [i \in 1..Len(xs) |-> FuncObj(xs[i])])

\* ------------------------------------------------------------ ExtractComponents
\* The SimpleConstructionScript, its component nodes and their templates are held
\* by value: a pointer to one is None (nullptr) or Some(object).
ComponentEmitted(c) == c # None /\ c[1].ComponentTemplate # None

\* The component classes a template is an instance of, besides its own: the casts
\* of ExtractComponents that succeed for a template of class cls.
ComponentBases(cls) ==
    CASE cls = "SceneComponent" -> {"SceneComponent"}
      [] cls = "StaticMeshComponent" -> {"SceneComponent", "StaticMeshComponent"}
      [] cls = "PointLightComponent" -> {"SceneComponent", "LightComponent"}
      [] OTHER -> {}

\* CompObj with the three blocks as one if / else-if chain.
CompObj_FirstMatchOnly(c) ==
    LET Node == c[1]
        Template == Node.ComponentTemplate[1]
        base == [name |-> Node.VariableName,
                 type |-> Template,
                 parent_component |->
                     IF Node.ParentComponentOrVariableName # NAME_None
                     THEN Node.ParentComponentOrVariableName ELSE "None"]
    IN  IF "SceneComponent" \in ComponentBases(Template)
        THEN SetField(base, "transform", "relative")
        ELSE IF "StaticMeshComponent" \in ComponentBases(Template)
        THEN SetField(base, "mesh_properties", "mesh")
        ELSE IF "LightComponent" \in ComponentBases(Template)
        THEN SetField(base, "light_properties", "light")
        ELSE base

CompObj(c) ==
    LET Node == c[1]
        Template == Node.ComponentTemplate[1]
        base == [name |-> Node.VariableName,
                 type |-> Template,
                 parent_component |->
                     IF Node.ParentComponentOrVariableName # NAME_None
                     THEN Node.ParentComponentOrVariableName ELSE "None"]
        t == IF "SceneComponent" \in ComponentBases(Template)
             THEN SetField(base, "transform", "relative") ELSE base
        m == IF "StaticMeshComponent" \in ComponentBases(Template)
             THEN SetField(t, "mesh_properties", "mesh") ELSE t
    IN  IF "LightComponent" \in ComponentBases(Template)
        THEN SetField(m, "light_properties", "light") ELSE m

\* SCS->GetAllNodes()
GetAllNodes(bp) == bp.SimpleConstructionScript[1]

ExtractComponents(bp) ==
    IF bp.SimpleConstructionScript = None THEN <<>>
    ELSE (LET xs == SelectSeq(GetAllNodes(bp), ComponentEmitted)
          IN  [i \in 1..Len(xs) |-> CompObj(xs[i])])

\* ------------------------------------------------------------ ExtractVariables
\* ContainerTypeName testing for None, Array and Set and taking any other tag for
\* a map.
ContainerTypeName_MapOtherwise(ct) ==
    IF ct = "EPinContainerType::None" THEN "none"
    ELSE IF ct = "EPinContainerType::Array" THEN "array"
    ELSE IF ct = "EPinContainerType::Set" THEN "set"
    ELSE "map"

ContainerTypeName(ct) ==
    IF ct = "EPinContainerType::Array" THEN "array"
    ELSE IF ct = "EPinContainerType::Set" THEN "set"
    ELSE IF ct = "EPinContainerType::Map" THEN "map"
    ELSE "none"

TypeObj(v) ==
    [category |-> v.PinCategory, container_type |-> ContainerTypeName(v.ContainerType)]

\* ReplicationType deciding RepNotify on the notify-function name alone.
ReplicationType_NotifyFirst(v) ==
    IF v.RepNotifyFunc # NAME_None THEN "RepNotify"
    ELSE IF "CPF_Net" \in v.PropertyFlags THEN "Replicated"
    ELSE "None"

ReplicationType(v) ==
    IF "CPF_Net" \in v.PropertyFlags
    THEN IF v.RepNotifyFunc # NAME_None THEN "RepNotify" ELSE "Replicated"
    ELSE "None"

\* RepConditionName without the case of COND_SkipReplay.
RepConditionName_NoSkipReplay(cond) ==
    CASE cond = "COND_InitialOnly" -> "InitialOnly"
      [] cond = "COND_OwnerOnly" -> "OwnerOnly"
      [] cond = "COND_SkipOwner" -> "SkipOwner"
      [] cond = "COND_SimulatedOnly" -> "SimulatedOnly"
      [] cond = "COND_AutonomousOnly" -> "AutonomousOnly"
      [] cond = "COND_SimulatedOrPhysics" -> "SimulatedOrPhysics"
      [] cond = "COND_InitialOrOwner" -> "InitialOrOwner"
      [] cond = "COND_Custom" -> "Custom"
      [] cond = "COND_ReplayOrOwner" -> "ReplayOrOwner"
      [] cond = "COND_ReplayOnly" -> "ReplayOnly"
      [] cond = "COND_SimulatedOnlyNoReplay" -> "SimulatedOnlyNoReplay"
      [] cond = "COND_SimulatedOrPhysicsNoReplay" -> "SimulatedOrPhysicsNoReplay"
      [] OTHER -> "None"

\* The switch over VarDesc.ReplicationCondition, with its default.
RepConditionName(cond) ==
    CASE cond = "COND_InitialOnly" -> "InitialOnly"
      [] cond = "COND_OwnerOnly" -> "OwnerOnly"
      [] cond = "COND_SkipOwner" -> "SkipOwner"
      [] cond = "COND_SimulatedOnly" -> "SimulatedOnly"
      [] cond = "COND_AutonomousOnly" -> "AutonomousOnly"
      [] cond = "COND_SimulatedOrPhysics" -> "SimulatedOrPhysics"
      [] cond = "COND_InitialOrOwner" -> "InitialOrOwner"
      [] cond = "COND_Custom" -> "Custom"
      [] cond = "COND_ReplayOrOwner" -> "ReplayOrOwner"
      [] cond = "COND_ReplayOnly" -> "ReplayOnly"
      [] cond = "COND_SimulatedOnlyNoReplay" -> "SimulatedOnlyNoReplay"
      [] cond = "COND_SimulatedOrPhysicsNoReplay" -> "SimulatedOrPhysicsNoReplay"
      [] cond = "COND_SkipReplay" -> "SkipReplay"
      [] OTHER -> "None"

VarObj(v) ==
    LET base == [name |-> v.VarName,
                 type_info |-> TypeObj(v),
                 type |-> v.PinCategory,
                 is_exposed |-> "CPF_ExposeOnSpawn" \in v.PropertyFlags,
                 is_blueprint_read_only |-> "CPF_BlueprintReadOnly" \in v.PropertyFlags,
                 is_editable |-> "CPF_Edit" \in v.PropertyFlags,
                 is_blueprint_visible |-> "CPF_BlueprintVisible" \in v.PropertyFlags,
                 is_transient |-> "CPF_Transient" \in v.PropertyFlags,
                 is_config |-> "CPF_Config" \in v.PropertyFlags,
                 replication |-> ReplicationType(v),
                 guid |-> GuidToString(v.VarGuid)]
        n == IF ReplicationType(v) = "RepNotify"
             THEN SetField(base, "rep_notify_function", v.RepNotifyFunc) ELSE base
    IN  IF "CPF_Net" \in v.PropertyFlags
        THEN SetField(n, "replication_condition", RepConditionName(v.ReplicationCondition))
        ELSE n

\* ExtractVariables emitting the declarations last to first.
ExtractVariables_Reversed(bp) ==
    LET xs == bp.NewVariables
    IN  [i \in 1..Len(xs) |-> VarObj(xs[Len(xs) + 1 - i])]

ExtractVariables(bp) == (LET xs == bp.NewVariables IN [i \in 1..Len(xs) |-> VarObj(xs[i])])

\* ------------------------------------------------------------ ExtractBlueprintInfo
BlueprintTypeName(t) ==
    CASE t = "BPTYPE_Normal" -> "Normal"
      [] t = "BPTYPE_Const" -> "Const"
      [] t = "BPTYPE_MacroLibrary" -> "MacroLibrary"
      [] t = "BPTYPE_Interface" -> "Interface"
      [] t = "BPTYPE_LevelScript" -> "LevelScript"
      [] t = "BPTYPE_FunctionLibrary" -> "FunctionLibrary"
      [] OTHER -> "Normal"

ExtractBlueprintInfo(bp) ==
    [name |-> bp.Name, blueprint_type |-> BlueprintTypeName(bp.BlueprintType)]

\* ------------------------------------------------------------ HandleGetBlueprintData
EventGraphSources(bp) == SelectSeq(bp.UbergraphPages, NotNull)

EventGraphObj(g) ==
    [name |-> graphHeap[g].Name, type |-> "event_graph", graph |-> ExtractGraphData(g)]

\* The first function graph named UserConstructionScript, when the blueprint has
\* a SimpleConstructionScript: a list of one graph, or of none.
ConstructionSources(bp) ==
    LET IsUCS(g) == g # Null /\ graphHeap[g].Name = "UserConstructionScript"
        hits == SelectSeq(bp.FunctionGraphs, IsUCS)
    IN  IF bp.SimpleConstructionScript # None /\ hits # <<>> THEN <<Head(hits)>> ELSE <<>>

ConstructionGraphObj(g) ==
    [name |-> "UserConstructionScript", type |-> "construction_script",
     graph |-> ExtractGraphData(g)]

\* EventGraphsArray with the construction script put first.
EventGraphsArray_ConstructionFirst(bp) ==
    (LET xs == ConstructionSources(bp) IN [i \in 1..Len(xs) |-> ConstructionGraphObj(xs[i])])
        \o (LET xs == EventGraphSources(bp) IN [i \in 1..Len(xs) |-> EventGraphObj(xs[i])])

EventGraphsArray(bp) ==
    (LET xs == EventGraphSources(bp) IN [i \in 1..Len(xs) |-> EventGraphObj(xs[i])])
        \o (LET xs == ConstructionSources(bp) IN [i \in 1..Len(xs) |-> ConstructionGraphObj(xs[i])])

\* FUnrealMCPCommonUtils::CreateErrorResponse
CreateErrorResponse(message) == [success |-> FALSE, message |-> message]

\* FString::Printf(format, arg) with one %s: the text before it, then the argument.
Printf(prefix, arg) == <<prefix, arg>>

\* FUnrealMCPCommonUtils::FindBlueprint: the blueprint of that name, if any.
FindBlueprint(name) == IF name = Blueprint.Name THEN <<Blueprint>> ELSE <<>>

Call(fn, g) == [fn |-> fn, graph |-> g]

GraphCall(g) == Call("ExtractGraphData", g)

\* The calls of a successful request, in the order the handler makes them.
ExtractorCalls(bp) ==
    <<Call("ExtractBlueprintInfo", Null), Call("ExtractComponents", Null),
      Call("ExtractVariables", Null), Call("ExtractFunctions", Null)>>
        \o (LET xs == FunctionSources(bp) IN [i \in 1..Len(xs) |-> GraphCall(xs[i])])
        \o (LET xs == EventGraphSources(bp) IN [i \in 1..Len(xs) |-> GraphCall(xs[i])])
        \o (LET xs == ConstructionSources(bp) IN [i \in 1..Len(xs) |-> GraphCall(xs[i])])

AssembleResult(bp) ==
    LET r0 == [success |-> TRUE]
        r1 == SetField(r0, "blueprint_info", ExtractBlueprintInfo(bp))
        r2 == SetField(r1, "components", ExtractComponents(bp))
        r3 == SetField(r2, "variables", ExtractVariables(bp))
        r4 == SetField(r3, "functions", ExtractFunctions(bp))
    IN  SetField(r4, "event_graphs", EventGraphsArray(bp))

\* A UE_LOG line of category LogTemp: its verbosity and its message, the format
\* text followed by its arguments.
LogTemp(Verbosity, Message) == [Verbosity |-> Verbosity, Message |-> Message]

\* The line ExtractComponents writes.
ExtractComponentsLog(bp) ==
    IF bp.SimpleConstructionScript = None
    THEN <<LogTemp("Warning", <<"Blueprint has no SimpleConstructionScript">>)>>
    ELSE <<LogTemp("Display", <<"Found %d components in blueprint", Len(GetAllNodes(bp))>>)>>

\* The line ExtractVariables writes.
ExtractVariablesLog(bp) ==
    <<LogTemp("Display", <<"Found %d variables in blueprint", Len(bp.NewVariables)>>)>>

\* The lines ExtractFunctions writes for one graph of its loop.  The schema and
\* the outer object named in the first of them are not part of this model's
\* graphs.
ProcessingGraphLog(bp, g) ==
    <<LogTemp("Warning", <<"  Processing Graph: %s, Schema=%s, NumNodes=%d, Outer=%s",
                           graphHeap[g].Name, Len(graphHeap[g].Nodes)>>),
      IF IsEventGraph(bp, g)
      THEN LogTemp("Warning", <<"    -> SKIPPING: This is an Event Graph (UbergraphPage)">>)
      ELSE IF FindEntryNode(g) = Null
           THEN LogTemp("Warning", <<"    -> SKIPPING: No FunctionEntry node found">>)
           ELSE LogTemp("Warning", <<"    -> EXTRACTING: Function with %d nodes",
                                     Len(graphHeap[g].Nodes)>>)>>

\* The lines ExtractFunctions writes.
ExtractFunctionsLog(bp) ==
    <<LogTemp("Warning", <<"ExtractFunctions: Blueprint=%s, Total Graphs=%d",
                           bp.Name, Len(GetAllGraphs(bp))>>)>>
        \o Flatten((LET xs == GetAllGraphs(bp)
                    IN  [i \in 1..Len(xs) |-> ProcessingGraphLog(bp, xs[i])]))
        \o <<LogTemp("Display", <<"Extracted %d functions", Len(FunctionSources(bp))>>)>>

\* The lines the handler writes for the event graphs.
EventGraphsLog(bp) ==
    <<LogTemp("Warning", <<"ExtractEventGraphs: Blueprint=%s, UbergraphPages=%d",
                           bp.Name, Len(bp.UbergraphPages)>>)>>
        \o (LET xs == EventGraphSources(bp)
            IN  [i \in 1..Len(xs) |->
                    LogTemp("Warning", <<"  Event Graph: %s, NumNodes=%d",
                                         graphHeap[xs[i]].Name, Len(graphHeap[xs[i]].Nodes)>>)])

\* The handler's first line, written before the lookup.
GettingLog(BlueprintName) ==
    <<LogTemp("Display", <<"Getting blueprint data for: %s", BlueprintName>>)>>

\* The lines of a successful request, in the order they are written.
AssembleLog(BlueprintName, bp) ==
    GettingLog(BlueprintName) \o ExtractComponentsLog(bp) \o ExtractVariablesLog(bp)
        \o ExtractFunctionsLog(bp) \o EventGraphsLog(bp)
        \o <<LogTemp("Display", <<"Successfully extracted blueprint data">>)>>

\* HandleGetBlueprintData without the test of the lookup's result.
HandleGetBlueprintData_NoLookupCheck(Params) ==
    IF ~HasField(Params, "blueprint_name")
    THEN [result |-> CreateErrorResponse(<<"Missing 'blueprint_name' parameter">>),
          calls |-> <<>>, lookups |-> <<>>, lines |-> <<>>]
    ELSE [result |-> AssembleResult(Blueprint), calls |-> ExtractorCalls(Blueprint),
          lookups |-> <<Params.blueprint_name>>,
          lines |-> AssembleLog(Params.blueprint_name, Blueprint)]

\* The value returned, the extractor calls made, the names looked up and the
\* log lines written: [result, calls, lookups, lines].
HandleGetBlueprintData(Params) ==
    IF ~HasField(Params, "blueprint_name")
    THEN [result |-> CreateErrorResponse(<<"Missing 'blueprint_name' parameter">>),
          calls |-> <<>>, lookups |-> <<>>, lines |-> <<>>]
    ELSE LET found == FindBlueprint(Params.blueprint_name)
         IN  IF found = <<>>
             THEN [result |-> CreateErrorResponse(
                                  Printf("Blueprint not found: ", Params.blueprint_name)),
                   calls |-> <<>>, lookups |-> <<Params.blueprint_name>>,
                   lines |-> GettingLog(Params.blueprint_name)]
             ELSE [result |-> AssembleResult(found[1]),
                   calls |-> ExtractorCalls(found[1]),
                   lookups |-> <<Params.blueprint_name>>,
                   lines |-> AssembleLog(Params.blueprint_name, found[1])]

\* HandleCommandResult passing every command type on to HandleGetBlueprintData.
HandleCommandResult_AnyCommand(CommandType, Params) == HandleGetBlueprintData(Params)

HandleCommandResult(CommandType, Params) ==
    IF CommandType = "get_blueprint_data"
    THEN HandleGetBlueprintData(Params)
    ELSE [result |-> CreateErrorResponse(
                         Printf("Unknown blueprint introspection command: ", CommandType)),
          calls |-> <<>>, lookups |-> <<>>, lines |-> <<>>]

\* ------------------------------------------------------------ FMCPLogCaptureDevice
DefaultMaxEntries == 1000    \* the capacity the module constructs its device with

Threads == {1, 2}

\* The thread that runs the module's start and stop, the editor's changes and
\* the command handlers.
GameThread == 1

\* The severity string the entry's constructor derives from the verbosity.
SeverityString(InVerbosity) ==
    CASE InVerbosity \in {"Fatal", "Error"} -> "Error"
      [] InVerbosity = "Warning" -> "Warning"
      [] InVerbosity \in {"Display", "Log"} -> "Display"
      [] OTHER -> "Verbose"

\* FMCPLogEntry(InMessage, InCategory, InVerbosity, InTime), without its time
\* stamp.  A category is the sequence of the parts of its name.
FMCPLogEntry(InMessage, InCategory, InVerbosity) ==
    [Message |-> InMessage, Category |-> InCategory, Verbosity |-> InVerbosity,
     Severity |-> SeverityString(InVerbosity)]

\* The constructor: an empty buffer; CriticalSection is the thread holding the
\* lock, or Null.
FMCPLogCaptureDevice(InMaxEntries) ==
    [MaxEntries |-> InMaxEntries, LogEntries |-> <<>>, WriteIndex |-> 0,
     bHasWrapped |-> FALSE, CriticalSection |-> Null]

IdleThread == [pc |-> "idle", op |-> "none", local |-> None, ret |-> None]

\* A thread that has not been started.
NoThread == [pc |-> "none", op |-> "none", local |-> None, ret |-> None]

\* The module: LogCaptureDevice is the pointer it owns (Null, or the number of
\* the device it created), OutputDevices the devices registered with GLog,
\* Destroyed the devices that have been destroyed, Created their count; Crashed
\* is set when a use of a destroyed device has ended the process, Loaded between
\* StartupModule and ShutdownModule.
\* The module before its first StartupModule.
UnloadedModule ==
    [LogCaptureDevice |-> Null, OutputDevices |-> {}, Destroyed |-> {}, Created |-> 0,
     Loaded |-> FALSE, Crashed |-> FALSE]

\* The module after its first StartupModule.
LoadedModule ==
    [LogCaptureDevice |-> 1, OutputDevices |-> {1}, Destroyed |-> {}, Created |-> 1,
     Loaded |-> TRUE, Crashed |-> FALSE]

\* A device of the given capacity constructed on its own: no module owns it and
\* GLog does not know it.
InitLogCapture(InMaxEntries) ==
    /\ LogCaptureDevice = FMCPLogCaptureDevice(InMaxEntries)
    /\ serialized = <<>>
    /\ threads = [t \in Threads |-> IdleThread]
    /\ UnrealMCPModule = UnloadedModule

\* Serialize, the buffer write: append while filling, else overwrite the entry at
\* WriteIndex (LogEntries is indexed from 0 in the code, from 1 here).
StoreEntry(dev, Entry) ==
    IF Len(dev.LogEntries) < dev.MaxEntries
    THEN [dev EXCEPT !.LogEntries = Append(@, Entry)]
    ELSE [dev EXCEPT !.LogEntries[dev.WriteIndex + 1] = Entry, !.bHasWrapped = TRUE]

\* AdvanceWriteIndex leaving the index where it is.
AdvanceWriteIndex_Stay(dev) == dev

\* Serialize, the index update.
AdvanceWriteIndex(dev) ==
    [dev EXCEPT !.WriteIndex = (dev.WriteIndex + 1) % dev.MaxEntries]

\* The line StartupModule writes once its device is registered.
RegisteredEntry ==
    FMCPLogEntry(<<"MCP Log Capture Device registered - capturing console output">>,
                 <<"Log", "Temp">>, "Display")

\* The device StartupModule leaves behind: constructed for 1000 entries and
\* holding that line.
StartedDevice ==
    AdvanceWriteIndex(StoreEntry(FMCPLogCaptureDevice(DefaultMaxEntries), RegisteredEntry))

\* The editor with the module started: its device is registered with GLog.
InitStarted ==
    /\ LogCaptureDevice = StartedDevice
    /\ serialized = <<RegisteredEntry>>
    /\ threads = [t \in Threads |-> IF t = GameThread THEN IdleThread ELSE NoThread]
    /\ UnrealMCPModule = LoadedModule

\* The same with a second thread running beside the game thread.
InitThreaded ==
    /\ LogCaptureDevice = StartedDevice
    /\ serialized = <<RegisteredEntry>>
    /\ threads = [t \in Threads |-> IdleThread]
    /\ UnrealMCPModule = LoadedModule

\* Serialize called once for each of the entries, in order.
RECURSIVE SerializeLines(_, _)
SerializeLines(dev, Entries) ==
    IF Entries = <<>> THEN dev
    ELSE SerializeLines(AdvanceWriteIndex(StoreEntry(dev, Head(Entries))), Tail(Entries))

\* FString::Contains: f occurs in s as a contiguous part.
Contains(s, f) ==
    \E i \in 0..(Len(s) - Len(f)) : SubSeq(s, i + 1, i + Len(f)) = f

\* PassesFilters keeping, for a severity filter, only the entries of exactly that
\* severity string.
PassesFilters_ExactSeverity(Entry, SeverityFilter, CategoryFilter) ==
    /\ ~(CategoryFilter # <<>> /\ ~Contains(Entry.Category, CategoryFilter))
    /\ IF SeverityFilter \in {"Error", "Warning", "Display"}
       THEN Entry.Severity = SeverityFilter
       ELSE TRUE

\* The category and severity tests of GetLogEntries' loop body: TRUE when the
\* entry is added.
PassesFilters(Entry, SeverityFilter, CategoryFilter) ==
    /\ ~(CategoryFilter # <<>> /\ ~Contains(Entry.Category, CategoryFilter))
    /\ IF SeverityFilter = "All" THEN TRUE
       ELSE IF SeverityFilter = "Error"
       THEN Entry.Verbosity \in {"Error", "Fatal"}
       ELSE IF SeverityFilter = "Warning"
       THEN Entry.Verbosity \in {"Error", "Fatal", "Warning"}
       ELSE IF SeverityFilter = "Display"
       THEN Entry.Verbosity \in {"Error", "Fatal", "Warning", "Display", "Log"}
       ELSE TRUE

RECURSIVE ReadLoop(_, _, _, _, _, _)
\* GetLogEntries' loop from index i on, OutEntries being what it has added so far.
ReadLoop(dev, i, OutEntries, MaxEntriesToReturn, SeverityFilter, CategoryFilter) ==
    LET NumEntries == Len(dev.LogEntries)
        StartIndex == IF dev.bHasWrapped THEN dev.WriteIndex ELSE 0
    IN  IF ~(i < NumEntries /\ Len(OutEntries) < MaxEntriesToReturn) THEN OutEntries
        ELSE LET Entry == dev.LogEntries[((StartIndex + i) % NumEntries) + 1]
             IN  ReadLoop(dev, i + 1,
                          IF PassesFilters(Entry, SeverityFilter, CategoryFilter)
                          THEN Append(OutEntries, Entry) ELSE OutEntries,
                          MaxEntriesToReturn, SeverityFilter, CategoryFilter)

\* What GetLogEntries leaves in OutEntries.
ReadEntries(dev, MaxEntriesToReturn, SeverityFilter, CategoryFilter) ==
    IF Len(dev.LogEntries) = 0 THEN <<>>
    ELSE ReadLoop(dev, 0, <<>>, MaxEntriesToReturn, SeverityFilter, CategoryFilter)

AllIdle == \A t \in Threads : threads[t].pc = "idle"

\* Serialize(V, Verbosity, Category), by thread t with no other call in progress.
\* The message is the number of the call.
Serialize(t, Verbosity, Category) ==
    /\ AllIdle
    /\ Len(serialized) < MaxSerialized
    /\ LET Entry == FMCPLogEntry(Len(serialized) + 1, Category, Verbosity)
       IN  /\ LogCaptureDevice' = AdvanceWriteIndex(StoreEntry(LogCaptureDevice, Entry))
           /\ serialized' = Append(serialized, Entry)
           /\ threads' = [threads EXCEPT ![t] =
                  [pc |-> "idle", op |-> "Serialize", local |-> Some(Entry), ret |-> None]]
    /\ UNCHANGED <<introspection, UnrealMCPModule>>

\* GetLogEntries(OutEntries, MaxEntriesToReturn, SeverityFilter, CategoryFilter),
\* by thread t with no other call in progress.
GetLogEntries(t, MaxEntriesToReturn, SeverityFilter, CategoryFilter) ==
    /\ AllIdle
    /\ threads' = [threads EXCEPT ![t] =
           [pc |-> "idle", op |-> "GetLogEntries",
            local |-> Some([MaxEntriesToReturn |-> MaxEntriesToReturn,
                            SeverityFilter |-> SeverityFilter,
                            CategoryFilter |-> CategoryFilter]),
            ret |-> Some(ReadEntries(LogCaptureDevice, MaxEntriesToReturn,
                                     SeverityFilter, CategoryFilter))]]
    /\ UNCHANGED <<introspection, UnrealMCPModule, LogCaptureDevice, serialized>>

\* GetTotalEntries(), by thread t with no other call in progress.
GetTotalEntries(t) ==
    /\ AllIdle
    /\ threads' = [threads EXCEPT ![t] =
           [pc |-> "idle", op |-> "GetTotalEntries", local |-> None,
            ret |-> Some(Len(LogCaptureDevice.LogEntries))]]
    /\ UNCHANGED <<introspection, UnrealMCPModule, LogCaptureDevice, serialized>>

\* The same calls step by step, for callers on several threads.  A thread's pc
\* is "idle", "lock" (at FScopeLock's constructor), "store", "advance", "read",
\* "unlock" (at FScopeLock's destructor) or "total".

\* The Serialize calls entered so far.
SerializeCalls ==
    Len(serialized)
        + Cardinality({t \in Threads : /\ threads[t].op = "Serialize"
                                       /\ threads[t].pc \in {"lock", "store"}})

\* Thread t enters Serialize; the message is the number of the call.
SerializeEnter(t, Verbosity, Category) ==
    /\ threads[t].pc = "idle"
    /\ SerializeCalls < MaxSerialized
    /\ threads' = [threads EXCEPT ![t] =
           [pc |-> "lock", op |-> "Serialize",
            local |-> Some([V |-> SerializeCalls + 1, Verbosity |-> Verbosity,
                            Category |-> Category]),
            ret |-> None]]
    /\ UNCHANGED <<introspection, UnrealMCPModule, LogCaptureDevice, serialized>>

\* FScopeLock Lock(&CriticalSection): thread t takes the lock when it is free.
AcquireLock(t) ==
    /\ threads[t].pc = "lock"
    /\ LogCaptureDevice.CriticalSection = Null
    /\ LogCaptureDevice' = [LogCaptureDevice EXCEPT !.CriticalSection = t]
    /\ threads' = [threads EXCEPT ![t].pc =
           IF threads[t].op = "Serialize" THEN "store" ELSE "read"]
    /\ UNCHANGED <<introspection, UnrealMCPModule, serialized>>

SerializeStore(t) ==
    /\ threads[t].pc = "store"
    /\ LET a == threads[t].local[1]
           Entry == FMCPLogEntry(a.V, a.Category, a.Verbosity)
       IN  /\ LogCaptureDevice' = StoreEntry(LogCaptureDevice, Entry)
           /\ serialized' = Append(serialized, Entry)
    /\ threads' = [threads EXCEPT ![t].pc = "advance"]
    /\ UNCHANGED <<introspection, UnrealMCPModule>>

SerializeAdvance(t) ==
    /\ threads[t].pc = "advance"
    /\ LogCaptureDevice' = AdvanceWriteIndex(LogCaptureDevice)
    /\ threads' = [threads EXCEPT ![t].pc = "unlock"]
    /\ UNCHANGED <<introspection, UnrealMCPModule, serialized>>

\* FScopeLock's destructor at the end of the function.
ReleaseLock(t) ==
    /\ threads[t].pc = "unlock"
    /\ LogCaptureDevice' = [LogCaptureDevice EXCEPT !.CriticalSection = Null]
    /\ threads' = [threads EXCEPT ![t].pc = "idle"]
    /\ UNCHANGED <<introspection, UnrealMCPModule, serialized>>

GetLogEntriesEnter(t, MaxEntriesToReturn, SeverityFilter, CategoryFilter) ==
    /\ threads[t].pc = "idle"
    /\ threads' = [threads EXCEPT ![t] =
           [pc |-> "lock", op |-> "GetLogEntries",
            local |-> Some([MaxEntriesToReturn |-> MaxEntriesToReturn,
                            SeverityFilter |-> SeverityFilter,
                            CategoryFilter |-> CategoryFilter]),
            ret |-> None]]
    /\ UNCHANGED <<introspection, UnrealMCPModule, LogCaptureDevice, serialized>>

GetLogEntriesRead(t) ==
    /\ threads[t].pc = "read"
    /\ LET q == threads[t].local[1]
       IN  threads' = [threads EXCEPT
               ![t].ret = Some(ReadEntries(LogCaptureDevice, q.MaxEntriesToReturn,
                                           q.SeverityFilter, q.CategoryFilter)),
               ![t].pc = "unlock"]
    /\ UNCHANGED <<introspection, UnrealMCPModule, LogCaptureDevice, serialized>>

\* Thread t enters GetTotalEntries, which takes no lock.
GetTotalEntriesEnter(t) ==
    /\ threads[t].pc = "idle"
    /\ threads' = [threads EXCEPT ![t] =
           [pc |-> "total", op |-> "GetTotalEntries", local |-> None, ret |-> None]]
    /\ UNCHANGED <<introspection, UnrealMCPModule, LogCaptureDevice, serialized>>

\* Another thread is at its write of LogEntries while t is at its read of it.
RacesWithWrite(t) == \E u \in Threads \ {t} : threads[u].pc = "store"

\* return LogEntries.Num(): the element count, or, when the read races with a
\* write of the array, any count the array can have.
GetTotalEntriesRead(t) ==
    /\ threads[t].pc = "total"
    /\ \E Num \in IF RacesWithWrite(t) THEN 0..LogCaptureDevice.MaxEntries
                  ELSE {Len(LogCaptureDevice.LogEntries)} :
          threads' = [threads EXCEPT ![t].ret = Some(Num), ![t].pc = "idle"]
    /\ UNCHANGED <<introspection, UnrealMCPModule, LogCaptureDevice, serialized>>

\* ------------------------------------------------------------ FUnrealMCPModule
\* GLog holds a device that has been destroyed: a log line is broadcast to it too.
Dangling(M) == M.OutputDevices \cap M.Destroyed # {}

\* The thread's record after a call of the module.
ModuleCall(op, ret) == [pc |-> "idle", op |-> op, local |-> None, ret |-> ret]

\* The process ends in a use of a destroyed device.
Crash ==
    /\ UnrealMCPModule' = [UnrealMCPModule EXCEPT !.Crashed = TRUE]
    /\ UNCHANGED <<introspection, LogCaptureDevice, serialized, threads>>

\* GLog passes the lines to every registered device: the module's device, when
\* it is registered, stores them in order.
Broadcast(lines) ==
    LET M == UnrealMCPModule
        Entries == [i \in 1..Len(lines) |->
                       FMCPLogEntry(lines[i].Message, <<"Log", "Temp">>, lines[i].Verbosity)]
    IN  IF M.LogCaptureDevice \in M.OutputDevices
        THEN /\ LogCaptureDevice' = SerializeLines(LogCaptureDevice, Entries)
             /\ serialized' = serialized \o Entries
        ELSE UNCHANGED <<LogCaptureDevice, serialized>>

\* A UE_LOG line of the module, after which thread t is as in `next` and the
\* module as in M2.  A line broadcast while GLog holds a destroyed device is a
\* use of freed memory: it goes unnoticed or ends the process.
ModuleLogs(t, Message, next, M2) ==
    \/ /\ Broadcast(<<[Verbosity |-> "Display", Message |-> Message]>>)
       /\ threads' = [threads EXCEPT ![t] = next]
       /\ UnrealMCPModule' = M2
       /\ UNCHANGED introspection
    \/ Dangling(UnrealMCPModule) /\ Crash

\* Thread t inside a call of the module, before the statement of the given line.
At(op, line) == [pc |-> line, op |-> op, local |-> None, ret |-> None]

\* StartupModule is entered: the UE_LOG of line 12.
StartupModule(t) ==
    /\ ~UnrealMCPModule.Crashed
    /\ threads[t].pc = "idle"
    /\ UnrealMCPModule.Created < MaxStartups
    /\ ModuleLogs(t, <<"Unreal MCP Module has started">>, At("StartupModule", "15"),
                  [UnrealMCPModule EXCEPT !.Loaded = TRUE])

\* Line 15: MakeUnique and the assignment, which destroys the device the pointer
\* held; nothing has removed that device from GLog.
StartupCreate(t) ==
    /\ ~UnrealMCPModule.Crashed
    /\ threads[t] = At("StartupModule", "15")
    /\ LET M == UnrealMCPModule
           old == M.LogCaptureDevice
           new == M.Created + 1
       IN  UnrealMCPModule' = [M EXCEPT !.LogCaptureDevice = new,
                                        !.Destroyed = @ \cup ({old} \ {Null}),
                                        !.Created = new]
    /\ LogCaptureDevice' = FMCPLogCaptureDevice(DefaultMaxEntries)
    /\ serialized' = <<>>
    /\ threads' = [threads EXCEPT ![t] = At("StartupModule", "17")]
    /\ UNCHANGED introspection

\* Lines 17-19: AddOutputDevice when the pointer is valid.
StartupRegister(t) ==
    /\ ~UnrealMCPModule.Crashed
    /\ threads[t] = At("StartupModule", "17")
    /\ LET M == UnrealMCPModule
       IN  IF M.LogCaptureDevice # Null
           THEN /\ UnrealMCPModule' = [M EXCEPT !.OutputDevices = @ \cup {M.LogCaptureDevice}]
                /\ threads' = [threads EXCEPT ![t] = At("StartupModule", "20")]
           ELSE /\ threads' = [threads EXCEPT ![t] = ModuleCall("StartupModule", None)]
                /\ UNCHANGED UnrealMCPModule
    /\ UNCHANGED <<introspection, LogCaptureDevice, serialized>>

\* Line 20: the UE_LOG the new device captures, and the return.
StartupLogs(t) ==
    /\ ~UnrealMCPModule.Crashed
    /\ threads[t] = At("StartupModule", "20")
    /\ ModuleLogs(t, RegisteredEntry.Message, ModuleCall("StartupModule", None),
                  UnrealMCPModule)

\* ShutdownModule is entered, lines 27-29: RemoveOutputDevice when the pointer is
\* valid.
ShutdownModule(t) ==
    /\ ~UnrealMCPModule.Crashed
    /\ threads[t].pc = "idle"
    /\ LET M == UnrealMCPModule
       IN  IF M.LogCaptureDevice # Null
           THEN /\ UnrealMCPModule' = [M EXCEPT !.OutputDevices = @ \ {M.LogCaptureDevice}]
                /\ threads' = [threads EXCEPT ![t] = At("ShutdownModule", "30")]
           ELSE /\ threads' = [threads EXCEPT ![t] = At("ShutdownModule", "33")]
                /\ UNCHANGED UnrealMCPModule
    /\ UNCHANGED <<introspection, LogCaptureDevice, serialized>>

\* Line 30: the UE_LOG after the removal.
ShutdownLogs(t) ==
    /\ ~UnrealMCPModule.Crashed
    /\ threads[t] = At("ShutdownModule", "30")
    /\ ModuleLogs(t, <<"MCP Log Capture Device unregistered">>, At("ShutdownModule", "33"),
                  UnrealMCPModule)

\* Line 33: Reset destroys the device and leaves the pointer null.
ShutdownReset(t) ==
    /\ ~UnrealMCPModule.Crashed
    /\ threads[t] = At("ShutdownModule", "33")
    /\ LET M == UnrealMCPModule
           old == M.LogCaptureDevice
       IN  UnrealMCPModule' = [M EXCEPT !.Destroyed = @ \cup ({old} \ {Null}),
                                        !.LogCaptureDevice = Null]
    /\ LogCaptureDevice' = FMCPLogCaptureDevice(DefaultMaxEntries)
    /\ serialized' = <<>>
    /\ threads' = [threads EXCEPT ![t] = At("ShutdownModule", "35")]
    /\ UNCHANGED introspection

\* Line 35: the last UE_LOG, and the return.
ShutdownReturns(t) ==
    /\ ~UnrealMCPModule.Crashed
    /\ threads[t] = At("ShutdownModule", "35")
    /\ ModuleLogs(t, <<"Unreal MCP Module has shut down">>, ModuleCall("ShutdownModule", None),
                  [UnrealMCPModule EXCEPT !.Loaded = FALSE])

\* GetLogCaptureDevice: LogCaptureDevice.Get(), on any thread and with no lock.
\* The caller notes whether the module was loaded.
GetLogCaptureDevice(t) ==
    /\ ~UnrealMCPModule.Crashed
    /\ threads[t].pc = "idle"
    /\ threads' = [threads EXCEPT ![t] =
           [pc |-> "idle", op |-> "GetLogCaptureDevice",
            local |-> Some(UnrealMCPModule.Loaded),
            ret |-> Some(UnrealMCPModule.LogCaptureDevice)]]
    /\ UNCHANGED <<introspection, LogCaptureDevice, serialized, UnrealMCPModule>>

\* The bound on the captured lines: a behaviour is followed while the device has
\* stored fewer than MaxLogged of them.
LogHasRoom == Len(serialized) < MaxLogged

\* The lines of the captured log that came from LogLine.
OtherLines == Cardinality({i \in 1..Len(serialized) : serialized[i].Message[1] = "%d"})

\* A UE_LOG line elsewhere in the process, on any thread: GLog passes it to
\* every registered device, and the device stores it under its lock, between
\* whatever lines the other threads store.  The text is the line's number.
LogLine(t, Verbosity, Category) ==
    /\ ~UnrealMCPModule.Crashed
    /\ threads[t].pc = "idle"
    /\ OtherLines < MaxOtherLines
    /\ UnrealMCPModule.OutputDevices # {}
    /\ LET M == UnrealMCPModule
           Entry == FMCPLogEntry(<<"%d", Len(serialized) + 1>>, Category, Verbosity)
       IN  \/ /\ IF M.LogCaptureDevice \in M.OutputDevices
                 THEN /\ LogCaptureDevice' =
                             AdvanceWriteIndex(StoreEntry(LogCaptureDevice, Entry))
                      /\ serialized' = Append(serialized, Entry)
                 ELSE UNCHANGED <<LogCaptureDevice, serialized>>
              /\ threads' = [threads EXCEPT ![t] = ModuleCall("Serialize", None)]
              /\ UNCHANGED <<introspection, UnrealMCPModule>>
           \/ Dangling(M) /\ Crash

\* ------------------------------------------------------------ requests
NoResponse == [pending |-> FALSE]

NoRequest == [pending |-> FALSE]

Idle == response = NoResponse

\* The game thread is not inside a handler.
GameThreadIdle == threads[GameThread].pc = "idle"

BlueprintNames == {"BP_Test", "BP_Missing"}

CommandTypes == {"get_blueprint_data", "get_blueprint_graph"}

ParamObjects == {EmptyObject} \cup {[blueprint_name |-> n] : n \in BlueprintNames}

\* Another thread is there to log a line of its own.
CanBeHeld ==
    \E t \in Threads \ {GameThread} :
        threads[t].pc = "idle" /\ OtherLines < MaxOtherLines

\* Where the handler, having logged k of its lines, stops next: at its return,
\* or after any later line when another thread is there to log in between.
\* Each UE_LOG is a call of Serialize of its own, and the lock is free between
\* two of them.  With no other thread the handler's steps are its own and it
\* is followed to its return.
Stops(k, lines) ==
    IF CanBeHeld THEN ((k + 1)..Len(lines)) \cup {Len(lines)} ELSE {Len(lines)}

\* The handler goes on from its line k to its line j: the lines in between are
\* logged one by one; after the last line it returns the document, and before
\* that it is held with j lines logged.  Lines broadcast while GLog holds a
\* destroyed device are a use of freed memory: it goes unnoticed or ends the
\* process.
RunHandler(CommandType, Params, r, k, j) ==
    \/ /\ Broadcast(SubSeq(r.lines, k + 1, j))
       /\ IF j = Len(r.lines)
          THEN /\ response' = r.result
               /\ calls' = r.calls
               /\ request' = [CommandType |-> CommandType, Params |-> Params]
               /\ threads' = [threads EXCEPT ![GameThread] = IdleThread]
          ELSE /\ threads' = [threads EXCEPT ![GameThread] =
                      [pc |-> "HandleCommand", op |-> "HandleCommand",
                       local |-> Some([CommandType |-> CommandType, Params |-> Params,
                                       logged |-> j]),
                       ret |-> None]]
               /\ UNCHANGED <<response, calls, request>>
       /\ UNCHANGED <<model, kept, UnrealMCPModule>>
    \/ j > k /\ Dangling(UnrealMCPModule) /\ Crash

\* The result of a handler whose variables array outlives the call (a static
\* array that is never emptied): the records of the call before, which the
\* caller kept, are still in it.
Accumulated(r) ==
    IF /\ kept # <<>>
       /\ HasField(r.result, "variables")
       /\ HasField(kept[Len(kept)].response, "variables")
    THEN [r EXCEPT !.result.variables = kept[Len(kept)].response.variables \o @]
    ELSE r

\* HandleCommand with that array.
HandleCommand_StaticArray(CommandType, Params) ==
    /\ Idle
    /\ GameThreadIdle
    /\ LogHasRoom
    /\ ~UnrealMCPModule.Crashed
    /\ LET r == Accumulated(HandleCommandResult(CommandType, Params))
       IN  \E j \in Stops(0, r.lines) : RunHandler(CommandType, Params, r, 0, j)

\* A request is served on the game thread: the model untouched, the lines it
\* logs captured one at a time.
HandleCommand(CommandType, Params) ==
    /\ Idle
    /\ GameThreadIdle
    /\ LogHasRoom
    /\ ~UnrealMCPModule.Crashed
    /\ LET r == HandleCommandResult(CommandType, Params)
       IN  \E j \in Stops(0, r.lines) : RunHandler(CommandType, Params, r, 0, j)

\* A held handler goes on.  The model has not changed meanwhile: the editor's
\* changes run on the thread the handler occupies.
ResumeCommand ==
    /\ threads[GameThread].pc = "HandleCommand"
    /\ ~UnrealMCPModule.Crashed
    /\ LET h == threads[GameThread].local[1]
           r == HandleCommandResult(h.CommandType, h.Params)
       IN  \E j \in Stops(h.logged, r.lines) :
               RunHandler(h.CommandType, h.Params, r, h.logged, j)

\* The caller takes the document; the host may change the model again.
Deliver ==
    /\ ~Idle
    /\ ~UnrealMCPModule.Crashed
    /\ response' = NoResponse
    /\ calls' = <<>>
    /\ request' = NoRequest
    /\ UNCHANGED <<model, kept, log>>

\* The caller takes the document and keeps it, with the request it answers and
\* the model it was made on.
Keep ==
    /\ ~Idle
    /\ ~UnrealMCPModule.Crashed
    /\ Len(kept) < MaxKept
    /\ kept' = Append(kept, [request |-> request, model |-> model,
                             response |-> response, calls |-> calls])
    /\ response' = NoResponse
    /\ calls' = <<>>
    /\ request' = NoRequest
    /\ UNCHANGED <<model, log>>

Serve ==
    \/ \E c \in CommandTypes, ps \in ParamObjects : HandleCommand(c, ps)
    \/ Deliver

\* ------------------------------------------------------------ the host editing the model
NodeIds == 1..Len(nodeHeap)
PinIds == 1..Len(pinHeap)
GraphIds == 1..Len(graphHeap)

RECURSIVE LinkEntriesUpTo(_)
LinkEntriesUpTo(k) == IF k = 0 THEN 0 ELSE Len(pinHeap[k].LinkedTo) + LinkEntriesUpTo(k - 1)

LinkEntries == LinkEntriesUpTo(Len(pinHeap))

NewNode(guid, casts) ==
    [NodeGuid |-> guid, Casts |-> casts, Pins |-> <<>>,
     MemberNameValid |-> TRUE, MemberName |-> "Member",
     CustomFunctionName |-> "Custom",
     FunctionFlags |-> {}, bCallInEditor |-> FALSE, LocalVariables |-> <<>>,
     Category |-> "", ToolTip |-> ""]

NewPin(owner, dir, cat, name) ==
    [OwningNode |-> owner, Direction |-> dir, PinCategory |-> cat, PinName |-> name,
     LinkedTo |-> <<>>]

NewBlueprint ==
    [Name |-> "BP_Test", BlueprintType |-> "BPTYPE_Normal",
     UbergraphPages |-> <<>>, FunctionGraphs |-> <<>>, MacroGraphs |-> <<>>,
     SimpleConstructionScript |-> None, NewVariables |-> <<>>]

PinSpec(dir, cat, name) == [dir |-> dir, cat |-> cat, name |-> name]

\* A node is created with its default pins (AllocateDefaultPins), one per entry of
\* `layout`; g is the graph whose node list takes it, or Null for a node that no
\* graph of this blueprint lists.
CreateNode(g, guid, casts, layout) ==
    /\ Idle
    /\ GameThreadIdle
    /\ LogHasRoom
    /\ Len(layout) <= MaxPins
    /\ nodeHeap' = Append(nodeHeap,
           [NewNode(guid, casts) EXCEPT
               !.Pins = [i \in 1..Len(layout) |-> Len(pinHeap) + i]])
    /\ pinHeap' = pinHeap \o
           [i \in 1..Len(layout) |->
               NewPin(Len(nodeHeap) + 1, layout[i].dir, layout[i].cat, layout[i].name)]
    /\ graphHeap' = IF g = Null THEN graphHeap
                    ELSE [graphHeap EXCEPT ![g].Nodes = Append(@, Len(nodeHeap) + 1)]
    /\ UNCHANGED <<Blueprint, response, calls, request, kept, log>>

SpawnNode(g, guid, casts, layout) ==
    /\ Len(nodeHeap) < MaxNodes
    /\ CreateNode(g, guid, casts, layout)

\* A null entry in a graph's node list.
AddNullNode(g) ==
    /\ Idle
    /\ GameThreadIdle
    /\ LogHasRoom
    /\ Len(graphHeap[g].Nodes) < MaxNodes
    /\ graphHeap' = [graphHeap EXCEPT ![g].Nodes = Append(@, Null)]
    /\ UNCHANGED <<nodeHeap, pinHeap, Blueprint, response, calls, request, kept, log>>

\* A null entry in a graph's node list, after its first k entries (one null entry
\* per list).
InsertNullNode(g, k) ==
    /\ Idle
    /\ GameThreadIdle
    /\ LogHasRoom
    /\ k <= Len(graphHeap[g].Nodes)
    /\ Null \notin Range(graphHeap[g].Nodes)
    /\ graphHeap' = [graphHeap EXCEPT ![g].Nodes =
                        SubSeq(@, 1, k) \o <<Null>> \o SubSeq(@, k + 1, Len(@))]
    /\ UNCHANGED <<nodeHeap, pinHeap, Blueprint, response, calls, request, kept, log>>

\* A null entry in a node's pin list, after its first k pins (one null entry at
\* a time).
AddNullPin(n, k) ==
    /\ Idle
    /\ GameThreadIdle
    /\ LogHasRoom
    /\ k <= Len(nodeHeap[n].Pins)
    /\ \A m \in 1..Len(nodeHeap) : Null \notin Range(nodeHeap[m].Pins)
    /\ nodeHeap' = [nodeHeap EXCEPT ![n].Pins =
                       SubSeq(@, 1, k) \o <<Null>> \o SubSeq(@, k + 1, Len(@))]
    /\ UNCHANGED <<pinHeap, graphHeap, Blueprint, response, calls, request, kept, log>>

\* No object is left dangling: every node is in some graph's node list and every
\* pin has an owning node.
Listed(n) == \E g \in 1..Len(graphHeap) : n \in Range(graphHeap[g].Nodes)

NoStaleObject ==
    /\ \A n \in 1..Len(nodeHeap) : Listed(n)
    /\ \A q \in 1..Len(pinHeap) : pinHeap[q].OwningNode # Null

\* UEdGraphNode::RemovePin without breaking the pin's links: the pin leaves its
\* node's list and has no owning node any more, the links to it stay.  The host
\* leaves one object at a time dangling.
RemovePin(p) ==
    /\ Idle
    /\ GameThreadIdle
    /\ LogHasRoom
    /\ NoStaleObject
    /\ pinHeap' = [pinHeap EXCEPT ![p].OwningNode = Null]
    /\ nodeHeap' = [nodeHeap EXCEPT ![pinHeap[p].OwningNode].Pins =
                       SelectSeq(@, LAMBDA x : x # p)]
    /\ UNCHANGED <<graphHeap, Blueprint, response, calls, request, kept, log>>

\* UEdGraphPin::MakeLinkTo: the link is stored on both pins, once.
MakeLinkTo(p, q) ==
    /\ Idle
    /\ GameThreadIdle
    /\ LogHasRoom
    /\ p # q
    /\ q \notin Range(pinHeap[p].LinkedTo)
    /\ p \notin Range(pinHeap[q].LinkedTo)
    /\ LinkEntries + 2 <= MaxLinks
    /\ pinHeap' = [pinHeap EXCEPT ![p].LinkedTo = Append(@, q),
                                  ![q].LinkedTo = Append(@, p)]
    /\ UNCHANGED <<nodeHeap, graphHeap, Blueprint, response, calls, request, kept, log>>

\* One entry t (a pin or Null) in the link list of p only.
AddLinkEntry(p, t) ==
    /\ Idle
    /\ GameThreadIdle
    /\ LogHasRoom
    /\ LinkEntries + 1 <= MaxLinks
    /\ pinHeap' = [pinHeap EXCEPT ![p].LinkedTo = Append(@, t)]
    /\ UNCHANGED <<nodeHeap, graphHeap, Blueprint, response, calls, request, kept, log>>

\* ------------------------------------------------------------ graphs: nodes, pins, links
Directions == {EGPD_Input, EGPD_Output}

InitGraph ==
    /\ nodeHeap = <<>>
    /\ pinHeap = <<>>
    /\ graphHeap = <<[Name |-> "EventGraph", Nodes |-> <<>>]>>
    /\ Blueprint = [NewBlueprint EXCEPT !.UbergraphPages = <<1>>]
    /\ response = NoResponse
    /\ calls = <<>>
    /\ request = NoRequest
    /\ kept = <<>>
    /\ InitStarted

InOutPins == <<PinSpec(EGPD_Input, "int", "In"), PinSpec(EGPD_Output, "int", "Out")>>

GraphRequest == HandleCommand("get_blueprint_data", [blueprint_name |-> "BP_Test"])

NextGraph ==
    \/ \E g \in GraphIds : SpawnNode(g, Len(nodeHeap) + 1, {}, InOutPins)
    \/ NoStaleObject /\ SpawnNode(Null, Len(nodeHeap) + 1, {}, InOutPins)
    \/ \E p \in PinIds : RemovePin(p)
    \/ \E p, q \in PinIds : MakeLinkTo(p, q)
    \/ \E p \in PinIds : \E t \in (PinIds \ {p}) \cup {Null} : AddLinkEntry(p, t)
    \/ GraphRequest
    \/ Deliver

SpecGraph == InitGraph /\ [][NextGraph]_vars

\* The same editor and requests with a second thread logging beside them.
InitRequest ==
    /\ nodeHeap = <<>>
    /\ pinHeap = <<>>
    /\ graphHeap = <<[Name |-> "EventGraph", Nodes |-> <<>>]>>
    /\ Blueprint = [NewBlueprint EXCEPT !.UbergraphPages = <<1>>]
    /\ response = NoResponse
    /\ calls = <<>>
    /\ request = NoRequest
    /\ kept = <<>>
    /\ InitThreaded

NextRequest ==
    \/ NextGraph
    \/ ResumeCommand
    \/ \E v \in {"Warning", "Error"} : LogLine(2, v, <<"Log", "Temp">>)

SpecRequest == InitRequest /\ [][NextRequest]_vars

\* ------------------------------------------------------------ graphs: node lists and node classes
\* The classes ExtractGraphData tests a node for, in the order it tests them.
ClassifiedClasses == <<"K2Node_Event", "K2Node_CallFunction", "K2Node_VariableGet",
                       "K2Node_VariableSet", "K2Node_CustomEvent">>

\* The classified classes Cast<> succeeds for on a node of class cls: the class
\* itself and its bases.  UK2Node_CustomEvent derives from UK2Node_Event; no
\* other classified class has a classified base.
NodeBases(cls) ==
    CASE cls = "K2Node_CustomEvent" -> {"K2Node_Event", "K2Node_CustomEvent"}
      [] cls \in Range(ClassifiedClasses) \ {"K2Node_CustomEvent"} -> {cls}
      [] OTHER -> {}

\* The classes of the nodes the editor spawns: the classified ones and one that
\* is none of them.
SpawnedClasses == Range(ClassifiedClasses) \cup {"K2Node_IfThenElse"}

\* The runtime types a spawned node may have, each as the set of casts that
\* succeed for it.
CastSets == {NodeBases(cls) : cls \in SpawnedClasses}

\* The member reference of node n no longer names a member (GetMemberName().IsValid()
\* is false).
ClearMemberName(n) ==
    /\ Idle
    /\ GameThreadIdle
    /\ LogHasRoom
    /\ nodeHeap[n].MemberNameValid
    /\ nodeHeap' = [nodeHeap EXCEPT ![n].MemberNameValid = FALSE]
    /\ UNCHANGED <<pinHeap, graphHeap, Blueprint, response, calls, request, kept, log>>

NextNodes ==
    \/ \E cs \in CastSets : SpawnNode(1, Len(nodeHeap) + 1, cs, <<>>)
    \/ AddNullNode(1)
    \/ \E n \in NodeIds : ClearMemberName(n)
    \/ GraphRequest
    \/ Deliver

SpecNodes == InitGraph /\ [][NextNodes]_vars

\* ------------------------------------------------------------ the blueprint's graph lists
GraphNames == {"EventGraph", "UserConstructionScript"}

GraphLists == {"UbergraphPages", "FunctionGraphs"}

\* A graph is created in one of the blueprint's graph lists.
CreateGraph(list, name) ==
    /\ Idle
    /\ GameThreadIdle
    /\ LogHasRoom
    /\ Len(graphHeap) < MaxGraphs
    /\ graphHeap' = Append(graphHeap, [Name |-> name, Nodes |-> <<>>])
    /\ Blueprint' = [Blueprint EXCEPT ![list] = Append(@, Len(graphHeap) + 1)]
    /\ UNCHANGED <<nodeHeap, pinHeap, response, calls, request, kept, log>>

\* A null entry in one of the blueprint's graph lists (one per list).
AddNullGraph(list) ==
    /\ Idle
    /\ GameThreadIdle
    /\ LogHasRoom
    /\ Null \notin Range(Blueprint[list])
    /\ Blueprint' = [Blueprint EXCEPT ![list] = Append(@, Null)]
    /\ UNCHANGED <<nodeHeap, pinHeap, graphHeap, response, calls, request, kept, log>>

\* The blueprint gets a SimpleConstructionScript (with no component yet).
CreateSCS ==
    /\ Idle
    /\ GameThreadIdle
    /\ LogHasRoom
    /\ Blueprint.SimpleConstructionScript = None
    /\ Blueprint' = [Blueprint EXCEPT !.SimpleConstructionScript = Some(<<>>)]
    /\ UNCHANGED <<nodeHeap, pinHeap, graphHeap, response, calls, request, kept, log>>

InitBlueprint ==
    /\ nodeHeap = <<>>
    /\ pinHeap = <<>>
    /\ graphHeap = <<>>
    /\ Blueprint = NewBlueprint
    /\ response = NoResponse
    /\ calls = <<>>
    /\ request = NoRequest
    /\ kept = <<>>
    /\ InitStarted

\* A function-entry node is put in a graph that has no node yet.
SpawnEntryNode(g) ==
    /\ graphHeap[g].Nodes = <<>>
    /\ SpawnNode(g, Len(nodeHeap) + 1, {"K2Node_FunctionEntry"}, <<>>)

NextBlueprint ==
    \/ \E l \in GraphLists, nm \in GraphNames : CreateGraph(l, nm)
    \/ \E l \in GraphLists : AddNullGraph(l)
    \/ CreateSCS
    \/ \E g \in GraphIds : SpawnEntryNode(g)
    \/ Serve

SpecBlueprint == InitBlueprint /\ [][NextBlueprint]_vars

\* ------------------------------------------------------------ a function graph
FunctionNodeClasses == {"K2Node_FunctionEntry", "K2Node_FunctionResult"}

\* The pins a node of a function graph is created with.
PinLayouts ==
    { <<PinSpec(EGPD_Output, PC_Exec, "then"),
        PinSpec(EGPD_Output, "int", "A"),
        PinSpec(EGPD_Output, "bool", "B")>>,
      <<PinSpec(EGPD_Input, PC_Exec, "execute"),
        PinSpec(EGPD_Input, "int", "ReturnValue")>>,
      <<PinSpec(EGPD_Input, "int", "X"),
        PinSpec(EGPD_Output, "int", "Y")>> }

SpawnFunctionNode(g, class, layout) ==
    /\ Len(nodeHeap) < MaxFuncNodes
    /\ CreateNode(g, Len(nodeHeap) + 1, {class}, layout)

\* A local variable is added to the function whose entry node is n.
AddLocalVariable(n) ==
    /\ Idle
    /\ GameThreadIdle
    /\ LogHasRoom
    /\ Cast("K2Node_FunctionEntry", n)
    /\ Len(nodeHeap[n].LocalVariables) < MaxLocals
    /\ nodeHeap' = [nodeHeap EXCEPT ![n].LocalVariables =
                       Append(@, [VarName |-> "Local", PinCategory |-> "int"])]
    /\ UNCHANGED <<pinHeap, graphHeap, Blueprint, response, calls, request, kept, log>>

InitFunc ==
    /\ nodeHeap = <<>>
    /\ pinHeap = <<>>
    /\ graphHeap = <<[Name |-> "MyFunction", Nodes |-> <<>>]>>
    /\ Blueprint = [NewBlueprint EXCEPT !.FunctionGraphs = <<1>>]
    /\ response = NoResponse
    /\ calls = <<>>
    /\ request = NoRequest
    /\ kept = <<>>
    /\ InitStarted

NextFunc ==
    \/ \E class \in FunctionNodeClasses, layout \in PinLayouts :
          SpawnFunctionNode(1, class, layout)
    \/ \E n \in NodeIds, k \in 0..MaxPins : AddNullPin(n, k)
    \/ \E n \in NodeIds : AddLocalVariable(n)
    \/ GraphRequest
    \/ Deliver

SpecFunc == InitFunc /\ [][NextFunc]_vars

\* ------------------------------------------------------------ the component-node list
ComponentNames == {"Root", "Mesh"}

ComponentClasses == {"ActorComponent", "SceneComponent", "StaticMeshComponent",
                     "PointLightComponent"}

\* A component node is added to the SimpleConstructionScript's list: a variable
\* name, a template (or none) and the name of its parent (another name, or NAME_None).
AddComponentNode(name, template, parent) ==
    /\ Idle
    /\ GameThreadIdle
    /\ LogHasRoom
    /\ parent # name
    /\ Blueprint.SimpleConstructionScript # None
    /\ Len(GetAllNodes(Blueprint)) < MaxComponents
    /\ Blueprint' = [Blueprint EXCEPT !.SimpleConstructionScript =
           Some(Append(@[1], Some([VariableName |-> name,
                                   ComponentTemplate |-> template,
                                   ParentComponentOrVariableName |-> parent])))]
    /\ UNCHANGED <<nodeHeap, pinHeap, graphHeap, response, calls, request, kept, log>>

\* A null entry in the component-node list.
AddNullComponentNode ==
    /\ Idle
    /\ GameThreadIdle
    /\ LogHasRoom
    /\ Blueprint.SimpleConstructionScript # None
    /\ Len(GetAllNodes(Blueprint)) < MaxComponents
    /\ Blueprint' = [Blueprint EXCEPT !.SimpleConstructionScript =
           Some(Append(@[1], None))]
    /\ UNCHANGED <<nodeHeap, pinHeap, graphHeap, response, calls, request, kept, log>>

NextComp ==
    \/ CreateSCS
    \/ \E nm \in ComponentNames,
          t \in {None} \cup {Some(cls) : cls \in ComponentClasses},
          par \in ComponentNames \cup {NAME_None} :
          AddComponentNode(nm, t, par)
    \/ AddNullComponentNode
    \/ GraphRequest
    \/ Deliver

SpecComp == InitGraph /\ [][NextComp]_vars

\* ------------------------------------------------------------ the declared variables
VariableNames == {"Health", "Inventory"}

ContainerTypes == {"EPinContainerType::None", "EPinContainerType::Array",
                   "EPinContainerType::Set", "EPinContainerType::Map"}

NotifyNames == {NAME_None, "OnRep_Value"}

\* The replication conditions the host declares variables with here.
DeclaredConditions == {"COND_None", "COND_OwnerOnly"}

\* A variable is declared: appended to Blueprint->NewVariables with a fresh guid.
AddVariable(name, container, flags, notify, cond) ==
    /\ Idle
    /\ GameThreadIdle
    /\ LogHasRoom
    /\ Len(Blueprint.NewVariables) < MaxVariables
    /\ Blueprint' = [Blueprint EXCEPT !.NewVariables =
           Append(@, [VarName |-> name,
                      VarGuid |-> Len(@) + 1,
                      PinCategory |-> "int",
                      ContainerType |-> container,
                      PropertyFlags |-> flags,
                      RepNotifyFunc |-> notify,
                      ReplicationCondition |-> cond])]
    /\ UNCHANGED <<nodeHeap, pinHeap, graphHeap, response, calls, request, kept, log>>

NextVars ==
    \/ \E nm \in VariableNames, ct \in ContainerTypes, fl \in {{}, {"CPF_Net"}},
          nf \in NotifyNames, cond \in DeclaredConditions :
          AddVariable(nm, ct, fl, nf, cond)
    \/ GraphRequest
    \/ Deliver

SpecVars == InitGraph /\ [][NextVars]_vars

\* A caller that keeps the documents of its requests while the editor declares
\* variables and creates the construction script.
NextCalls ==
    \/ AddVariable("Health", "EPinContainerType::None", {}, NAME_None, "COND_None")
    \/ CreateSCS
    \/ \E ps \in ParamObjects : HandleCommand("get_blueprint_data", ps)
    \/ Keep
    \/ Deliver

SpecCalls == InitBlueprint /\ [][NextCalls]_vars

\* ------------------------------------------------------------ variables of every replication condition
\* The values of ELifetimeCondition a variable description may hold.
ReplicationConditions ==
    {"COND_None", "COND_InitialOnly", "COND_OwnerOnly", "COND_SkipOwner",
     "COND_SimulatedOnly", "COND_AutonomousOnly", "COND_SimulatedOrPhysics",
     "COND_InitialOrOwner", "COND_Custom", "COND_ReplayOrOwner", "COND_ReplayOnly",
     "COND_SimulatedOnlyNoReplay", "COND_SimulatedOrPhysicsNoReplay",
     "COND_SkipReplay", "COND_Dynamic", "COND_Never", "COND_NetGroup"}

NextConds ==
    \/ \E fl \in {{}, {"CPF_Net"}}, cond \in ReplicationConditions :
          AddVariable("Health", "EPinContainerType::None", fl, NAME_None, cond)
    \/ GraphRequest
    \/ Deliver

SpecConds == InitGraph /\ [][NextConds]_vars

\* ------------------------------------------------------------ enumeration values the extractors do not name
\* EBlueprintType: the six values the switch names, and two it does not.
BlueprintTypes ==
    {"BPTYPE_Normal", "BPTYPE_Const", "BPTYPE_MacroLibrary", "BPTYPE_Interface",
     "BPTYPE_LevelScript", "BPTYPE_FunctionLibrary", "BPTYPE_MAX"}

\* EPinContainerType with a tag the extractor does not test for.
AnyContainerTypes == ContainerTypes \cup {"EPinContainerType::Unknown"}

\* The casts of the nodes created here: an event node, and nodes of classes the
\* classification does not test for.
AnyNodeCasts == {{"K2Node_Event"}, {"K2Node_FunctionEntry"}, {}}

SetBlueprintType(t) ==
    /\ Idle
    /\ GameThreadIdle
    /\ LogHasRoom
    /\ Blueprint.BlueprintType # t
    /\ Blueprint' = [Blueprint EXCEPT !.BlueprintType = t]
    /\ UNCHANGED <<nodeHeap, pinHeap, graphHeap, response, calls, request, kept, log>>

NextEnums ==
    \/ \E t \in BlueprintTypes : SetBlueprintType(t)
    \/ \E ct \in AnyContainerTypes :
          AddVariable("Health", ct, {}, NAME_None, "COND_None")
    \/ \E cs \in AnyNodeCasts : SpawnNode(1, Len(nodeHeap) + 1, cs, <<>>)
    \/ GraphRequest
    \/ Deliver

SpecEnums == InitGraph /\ [][NextEnums]_vars

\* ------------------------------------------------------------ the flags of a function's entry node
\* The function flags set and cleared on entry nodes here.
EntryFunctionFlags == {"FUNC_Private", "FUNC_Protected", "FUNC_BlueprintPure"}

\* The function flags of entry node n are set (access specifier, purity).
SetFunctionFlags(n, flags) ==
    /\ Idle
    /\ GameThreadIdle
    /\ LogHasRoom
    /\ Cast("K2Node_FunctionEntry", n)
    /\ nodeHeap[n].FunctionFlags # flags
    /\ nodeHeap' = [nodeHeap EXCEPT ![n].FunctionFlags = flags]
    /\ UNCHANGED <<pinHeap, graphHeap, Blueprint, response, calls, request, kept, log>>

\* MetaData.bCallInEditor of entry node n is set or cleared.
SetCallInEditor(n, b) ==
    /\ Idle
    /\ GameThreadIdle
    /\ LogHasRoom
    /\ Cast("K2Node_FunctionEntry", n)
    /\ nodeHeap[n].bCallInEditor # b
    /\ nodeHeap' = [nodeHeap EXCEPT ![n].bCallInEditor = b]
    /\ UNCHANGED <<pinHeap, graphHeap, Blueprint, response, calls, request, kept, log>>

NextFlags ==
    \/ SpawnFunctionNode(1, "K2Node_FunctionEntry", <<>>)
    \/ \E n \in NodeIds, flags \in SUBSET EntryFunctionFlags : SetFunctionFlags(n, flags)
    \/ \E n \in NodeIds, b \in BOOLEAN : SetCallInEditor(n, b)
    \/ GraphRequest
    \/ Deliver

SpecFlags == InitFunc /\ [][NextFlags]_vars

\* ------------------------------------------------------------ null references in the model
\* A blueprint with one ubergraph page of two nodes, each with an input and an
\* output pin, and a SimpleConstructionScript without components.
InitNulls ==
    /\ nodeHeap = <<[NewNode(1, {}) EXCEPT !.Pins = <<1, 2>>],
                    [NewNode(2, {}) EXCEPT !.Pins = <<3, 4>>]>>
    /\ pinHeap = <<NewPin(1, EGPD_Input, "int", "In"), NewPin(1, EGPD_Output, "int", "Out"),
                   NewPin(2, EGPD_Input, "int", "In"), NewPin(2, EGPD_Output, "int", "Out")>>
    /\ graphHeap = <<[Name |-> "EventGraph", Nodes |-> <<1, 2>>]>>
    /\ Blueprint = [NewBlueprint EXCEPT !.UbergraphPages = <<1>>,
                                        !.SimpleConstructionScript = Some(<<>>)]
    /\ response = NoResponse
    /\ calls = <<>>
    /\ request = NoRequest
    /\ kept = <<>>
    /\ InitStarted

PinsOf(n, dir) == {p \in PinIds : pinHeap[p].OwningNode = n /\ pinHeap[p].Direction = dir}

NextNulls ==
    \/ \E k \in 0..MaxNodes : InsertNullNode(1, k)
    \/ \E n \in NodeIds, k \in 0..MaxPins : AddNullPin(n, k)
    \/ \E p \in PinsOf(1, EGPD_Output), t \in PinsOf(2, EGPD_Input) \cup {Null} :
          AddLinkEntry(p, t)
    \/ \E l \in GraphLists : AddNullGraph(l)
    \/ AddNullComponentNode
    \/ \E t \in {None, Some("SceneComponent")} : AddComponentNode("Root", t, NAME_None)
    \/ GraphRequest
    \/ Deliver

SpecNulls == InitNulls /\ [][NextNulls]_vars

\* ------------------------------------------------------------ the log stream
Verbosities == {"Error", "Warning", "Log"}

Categories == {<<"Log", "Temp">>, <<"Log", "Blueprint">>}

SeverityFilters == {"All", "Error", "Warning", "Display"}

CategoryFilters == {<<>>, <<"Temp">>}

\* No blueprint is open; a device of some capacity has been constructed.
InitLog ==
    /\ nodeHeap = <<>>
    /\ pinHeap = <<>>
    /\ graphHeap = <<>>
    /\ Blueprint = NewBlueprint
    /\ response = NoResponse
    /\ calls = <<>>
    /\ request = NoRequest
    /\ kept = <<>>
    /\ \E M \in 1..MaxCapacity : InitLogCapture(M)

NextLog ==
    \/ \E v \in Verbosities, c \in Categories : Serialize(1, v, c)
    \/ \E n \in 0..MaxLimit, sf \in SeverityFilters, cf \in CategoryFilters :
          GetLogEntries(1, n, sf, cf)
    \/ GetTotalEntries(1)

SpecLog == InitLog /\ [][NextLog]_vars

\* ------------------------------------------------------------ the log stream, every verbosity
\* The entries logged here: one of each verbosity in LogTemp, and a warning in
\* LogBlueprint.
LoggedKinds ==
    {[Verbosity |-> v, Category |-> <<"Log", "Temp">>] :
        v \in {"Fatal", "Error", "Warning", "Display", "Log", "Verbose", "VeryVerbose"}}
      \cup {[Verbosity |-> "Warning", Category |-> <<"Log", "Blueprint">>]}

\* The severity filters of the requests here: the four the code names, and one it
\* does not.
AnySeverityFilters == SeverityFilters \cup {"Verbose"}

NextFilter ==
    \/ \E k \in LoggedKinds : Serialize(1, k.Verbosity, k.Category)
    \/ \E sf \in AnySeverityFilters, cf \in CategoryFilters :
          GetLogEntries(1, MaxLimit, sf, cf)
    \/ GetTotalEntries(1)

SpecFilter == InitLog /\ [][NextFilter]_vars

\* ------------------------------------------------------------ the module's life cycle
\* No blueprint is open and the module has not started.
InitModule ==
    /\ nodeHeap = <<>>
    /\ pinHeap = <<>>
    /\ graphHeap = <<>>
    /\ Blueprint = NewBlueprint
    /\ response = NoResponse
    /\ calls = <<>>
    /\ request = NoRequest
    /\ kept = <<>>
    /\ LogCaptureDevice = FMCPLogCaptureDevice(DefaultMaxEntries)
    /\ serialized = <<>>
    /\ threads = [t \in Threads |-> IdleThread]
    /\ UnrealMCPModule = UnloadedModule

NextModule ==
    \/ StartupModule(GameThread)
    \/ StartupCreate(GameThread)
    \/ StartupRegister(GameThread)
    \/ StartupLogs(GameThread)
    \/ ShutdownModule(GameThread)
    \/ ShutdownLogs(GameThread)
    \/ ShutdownReset(GameThread)
    \/ ShutdownReturns(GameThread)
    \/ \E t \in Threads : GetLogCaptureDevice(t)
    \/ \E v \in Verbosities : LogLine(2, v, <<"Log", "Temp">>)
    \/ \E n \in BlueprintNames : HandleCommand("get_blueprint_data", [blueprint_name |-> n])
    \/ ResumeCommand
    \/ Deliver

SpecModule == InitModule /\ [][NextModule]_vars

\* ------------------------------------------------------------ graphs with and without entry nodes
\* The function-entry nodes the host creates: metadata, function flags, pins and
\* local variables.
EntryTemplates ==
    { [Category |-> "", ToolTip |-> "", FunctionFlags |-> {}, bCallInEditor |-> FALSE,
       layout |-> <<PinSpec(EGPD_Output, PC_Exec, "then"),
                    PinSpec(EGPD_Output, "int", "A")>>,
       LocalVariables |-> <<>>],
      [Category |-> "Math", ToolTip |-> "Adds", FunctionFlags |-> {"FUNC_Private"},
       bCallInEditor |-> TRUE,
       layout |-> <<PinSpec(EGPD_Output, "bool", "B")>>,
       LocalVariables |-> <<[VarName |-> "Local", PinCategory |-> "int"]>>],
      [Category |-> "Util", ToolTip |-> "", FunctionFlags |-> {"FUNC_Protected"},
       bCallInEditor |-> FALSE,
       layout |-> <<>>,
       LocalVariables |-> <<>>] }

SpawnFunctionEntry(g, tpl) ==
    /\ Idle
    /\ GameThreadIdle
    /\ LogHasRoom
    /\ Len(nodeHeap) < MaxFuncNodes
    /\ Len(tpl.layout) <= MaxPins
    /\ nodeHeap' = Append(nodeHeap,
           [NewNode(Len(nodeHeap) + 1, {"K2Node_FunctionEntry"}) EXCEPT
               !.Pins = [i \in 1..Len(tpl.layout) |-> Len(pinHeap) + i],
               !.Category = tpl.Category,
               !.ToolTip = tpl.ToolTip,
               !.FunctionFlags = tpl.FunctionFlags,
               !.bCallInEditor = tpl.bCallInEditor,
               !.LocalVariables = tpl.LocalVariables])
    /\ pinHeap' = pinHeap \o
           [i \in 1..Len(tpl.layout) |->
               NewPin(Len(nodeHeap) + 1, tpl.layout[i].dir, tpl.layout[i].cat,
                      tpl.layout[i].name)]
    /\ graphHeap' = [graphHeap EXCEPT ![g].Nodes = Append(@, Len(nodeHeap) + 1)]
    /\ UNCHANGED <<Blueprint, response, calls, request, kept, log>>

SpawnResultNode(g) ==
    SpawnFunctionNode(g, "K2Node_FunctionResult",
                      <<PinSpec(EGPD_Input, "int", "ReturnValue")>>)

\* A function graph, a macro graph and an event graph page, all empty.
InitEntry ==
    /\ nodeHeap = <<>>
    /\ pinHeap = <<>>
    /\ graphHeap = <<[Name |-> "MyFunction", Nodes |-> <<>>],
                     [Name |-> "MyMacro", Nodes |-> <<>>],
                     [Name |-> "EventGraph", Nodes |-> <<>>]>>
    /\ Blueprint = [NewBlueprint EXCEPT !.FunctionGraphs = <<1>>,
                                        !.MacroGraphs = <<2>>,
                                        !.UbergraphPages = <<3>>]
    /\ response = NoResponse
    /\ calls = <<>>
    /\ request = NoRequest
    /\ kept = <<>>
    /\ InitStarted

NextEntry ==
    \/ \E g \in GraphIds, tpl \in EntryTemplates : SpawnFunctionEntry(g, tpl)
    \/ \E g \in GraphIds : SpawnResultNode(g)
    \/ GraphRequest
    \/ Deliver

SpecEntry == InitEntry /\ [][NextEntry]_vars

\* ------------------------------------------------------------ graphs whose nodes may share a guid
\* The host creates nodes whose NodeGuid it takes from a small set, so that two
\* nodes of the graph may carry the same guid (a duplicated node that kept it).
NextGuids ==
    \/ \E guid \in 1..MaxGuid, cs \in {{}, {"K2Node_Event"}}, layout \in {<<>>, InOutPins} :
          SpawnNode(1, guid, cs, layout)
    \/ \E k \in 0..MaxNodes : InsertNullNode(1, k)
    \/ GraphRequest
    \/ Deliver

SpecGuids == InitGraph /\ [][NextGuids]_vars

\* ------------------------------------------------------------ concurrent callers of the device
NextThreads ==
    \E t \in Threads :
        \/ SerializeEnter(t, "Log", <<"Log", "Temp">>)
        \/ AcquireLock(t)
        \/ SerializeStore(t)
        \/ SerializeAdvance(t)
        \/ ReleaseLock(t)
        \/ GetLogEntriesEnter(t, MaxLimit, "All", <<>>)
        \/ GetLogEntriesRead(t)
        \/ GetTotalEntriesEnter(t)
        \/ GetTotalEntriesRead(t)

SpecThreads == InitLog /\ [][NextThreads]_vars

\* ------------------------------------------------------------ what a response holds
Succeeded == HasField(response, "success") /\ response.success

\* Every graph document of the response: those of the functions, of the event
\* graphs and of the construction script.
GraphDocs ==
    {response.functions[i].graph : i \in 1..Len(response.functions)}
        \cup {response.event_graphs[i].graph : i \in 1..Len(response.event_graphs)}

NodeIdsOf(d) == {d.nodes[j].id : j \in 1..Len(d.nodes)}

\* The pins a connection record joins.
Ends(c) == {c.from_pin, c.to_pin}

\* Every link is stored on both of its pins, once, and no entry is null.
SymmetricLinks ==
    \A p \in PinIds :
        \A i \in 1..Len(pinHeap[p].LinkedTo) :
            LET q == pinHeap[p].LinkedTo[i] IN
            /\ q # Null
            /\ p \in Range(pinHeap[q].LinkedTo)
            /\ \A j \in 1..Len(pinHeap[p].LinkedTo) : j # i => pinHeap[p].LinkedTo[j] # q

\* ------------------------------------------------------------ properties: connections
\* C1: in every graph document, from_node and to_node of every connection are ids
\* of nodes of that document's nodes array.
C1_ReferentialIntegrity ==
    Succeeded =>
        \A d \in GraphDocs :
            \A i \in 1..Len(d.connections) :
                /\ d.connections[i].from_node \in NodeIdsOf(d)
                /\ d.connections[i].to_node \in NodeIdsOf(d)

\* C3 as stated: when links are stored symmetrically, no two connection records
\* of a graph document stand for the same link.
C3_NoLinkEmittedTwice ==
    (Succeeded /\ SymmetricLinks) =>
        \A d \in GraphDocs :
            \A i, j \in 1..Len(d.connections) :
                i # j => Ends(d.connections[i]) # Ends(d.connections[j])

RecordsOf(d, p, q) ==
    {i \in 1..Len(d.connections) : Ends(d.connections[i]) = {p, q}}

OwnerListed(g, p) ==
    pinHeap[p].OwningNode # Null /\ pinHeap[p].OwningNode \in Range(graphHeap[g].Nodes)

\* C3 as amended: when links are stored symmetrically, a link between an output
\* pin of a listed node and an input pin that has an owning node has exactly one
\* record in the graph's document, and a link between two output pins of listed
\* nodes has two, one from each side.  (The one ubergraph page is graph 1 and
\* its document is event_graphs[1].graph.)
C3_OneRecordPerWire ==
    (Succeeded /\ SymmetricLinks) =>
        LET d == response.event_graphs[1].graph IN
        \A p, q \in PinIds :
            (/\ q \in Range(pinHeap[p].LinkedTo)
             /\ pinHeap[p].Direction = EGPD_Output
             /\ OwnerListed(1, p)
             /\ pinHeap[q].OwningNode # Null) =>
                IF pinHeap[q].Direction = EGPD_Input
                THEN Cardinality(RecordsOf(d, p, q)) = 1
                ELSE OwnerListed(1, q) => Cardinality(RecordsOf(d, p, q)) = 2

\* C3's case: one wire from an output pin of one listed node to an input pin of
\* another, and the document holds one connection record.
C3_Witness ==
    /\ Succeeded
    /\ SymmetricLinks
    /\ LinkEntries = 2
    /\ \E p, q \in PinIds :
          /\ q \in Range(pinHeap[p].LinkedTo)
          /\ pinHeap[p].Direction = EGPD_Output
          /\ pinHeap[q].Direction = EGPD_Input
          /\ OwnerListed(1, p) /\ OwnerListed(1, q)
          /\ pinHeap[p].OwningNode # pinHeap[q].OwningNode
    /\ Len(response.event_graphs[1].graph.connections) = 1

\* ------------------------------------------------------------ properties: nodes
\* C2: in every graph document node_count is the length of nodes and
\* connection_count is the length of connections.
C2_SummaryConsistency ==
    Succeeded =>
        \A d \in GraphDocs :
            /\ d.node_count = Len(d.nodes)
            /\ d.connection_count = Len(d.connections)

CategoryOfClass(class) ==
    CASE class = "K2Node_Event" -> "event"
      [] class = "K2Node_CallFunction" -> "function_call"
      [] class = "K2Node_VariableGet" -> "variable_get"
      [] class = "K2Node_VariableSet" -> "variable_set"
      [] class = "K2Node_CustomEvent" -> "custom_event"

NameFieldOfCategory(cat) ==
    CASE cat \in {"event", "custom_event"} -> {"event_name"}
      [] cat = "function_call" -> {"function_name"}
      [] cat \in {"variable_get", "variable_set"} -> {"variable_name"}
      [] OTHER -> {}

NameFields == {"event_name", "function_name", "variable_name"}

\* The category the ordered capability test gives a set of successful casts.
ExpectedCategory(casts) ==
    LET hits == {i \in 1..Len(ClassifiedClasses) : ClassifiedClasses[i] \in casts}
    IN  IF hits = {} THEN "other"
        ELSE CategoryOfClass(ClassifiedClasses[CHOOSE i \in hits : \A j \in hits : i <= j])

\* The nodes the document of graph g has records for, in record order.
EmittedNodes(g) == SelectSeq(graphHeap[g].Nodes, NotNull)

\* The category named after a node's own class.
OwnCategory(cls) ==
    IF cls \in Range(ClassifiedClasses) THEN CategoryOfClass(cls) ELSE "other"

\* C10: every emitted node has the one node_category of the first capability that
\* matches in the order event, function_call, variable_get, variable_set,
\* custom_event ("other" when none does); it carries no name field but the one of
\* its category, and a node of category "other" carries none; and each of the six
\* categories is produced for the nodes of its class: a node is emitted in the
\* category named after its own class.
C10_EveryCategoryProduced ==
    Succeeded =>
        LET d == response.event_graphs[1].graph
            ns == EmittedNodes(1)
        IN  /\ Len(d.nodes) = Len(ns)
            /\ \A i \in 1..Len(ns) :
                  /\ d.nodes[i].node_category = ExpectedCategory(nodeHeap[ns[i]].Casts)
                  /\ (DOMAIN d.nodes[i]) \cap NameFields
                        \subseteq NameFieldOfCategory(d.nodes[i].node_category)
                  /\ d.nodes[i].node_category = "other"
                        => (DOMAIN d.nodes[i]) \cap NameFields = {}
                  /\ \A cls \in SpawnedClasses :
                        nodeHeap[ns[i]].Casts = NodeBases(cls)
                            => d.nodes[i].node_category = OwnCategory(cls)

\* C10's failing case: a custom event node, for which the cast to UK2Node_Event
\* succeeds too, is emitted as event with the member name of its event reference,
\* beside a node of no classified class, emitted as other.
C10_Witness ==
    /\ Succeeded
    /\ LET d == response.event_graphs[1].graph IN
       /\ \E i \in 1..Len(d.nodes) :
             /\ nodeHeap[EmittedNodes(1)[i]].Casts = NodeBases("K2Node_CustomEvent")
             /\ d.nodes[i].node_category = "event"
             /\ d.nodes[i].event_name = nodeHeap[EmittedNodes(1)[i]].MemberName
       /\ \E i \in 1..Len(d.nodes) :
             /\ d.nodes[i].node_category = "other"
             /\ nodeHeap[EmittedNodes(1)[i]].Casts = {}

\* ------------------------------------------------------------ properties: the assembled document
Sections == {"blueprint_info", "components", "variables", "functions", "event_graphs"}

\* The request being answered is get_blueprint_data for the blueprint named n.
AskedFor(n) ==
    /\ HasField(request, "CommandType")
    /\ request.CommandType = "get_blueprint_data"
    /\ HasField(request.Params, "blueprint_name")
    /\ request.Params.blueprint_name = n

HasEntryNode(g) ==
    \E k \in 1..Len(graphHeap[g].Nodes) :
        /\ graphHeap[g].Nodes[k] # Null
        /\ "K2Node_FunctionEntry" \in nodeHeap[graphHeap[g].Nodes[k]].Casts

\* The graphs behind the entries of event_graphs, in entry order.
EventGraphEntrySources ==
    EventGraphSources(Blueprint) \o ConstructionSources(Blueprint)

\* C4: no graph of the blueprint is emitted both in functions and in event_graphs,
\* nor twice in event_graphs.
C4_ExclusivePartition ==
    Succeeded =>
        LET fs == FunctionSources(Blueprint)
            es == EventGraphEntrySources
        IN  /\ Len(response.functions) = Len(fs)
            /\ Len(response.event_graphs) = Len(es)
            /\ \A i \in 1..Len(fs), j \in 1..Len(es) : fs[i] # es[j]
            /\ \A i, j \in 1..Len(es) : i # j => es[i] # es[j]

\* C6: a get_blueprint_data request for a name the lookup does not find is
\* answered success = false with a message holding the name and none of the
\* document's sections, and no extractor has run.
C6_NotFoundIsError ==
    \A n \in BlueprintNames :
        (AskedFor(n) /\ FindBlueprint(n) = None) =>
            /\ response.success = FALSE
            /\ n \in Range(response.message)
            /\ (DOMAIN response) \cap Sections = {}
            /\ calls = <<>>

\* C6's case: the blueprint has graphs and a SimpleConstructionScript, and a
\* request for a name that is not its name has been answered.
C6_Witness ==
    /\ AskedFor("BP_Missing")
    /\ graphHeap # <<>>
    /\ Blueprint.SimpleConstructionScript # None
    /\ ~response.success

\* C7: a successful response holds all five sections; the handler calls the
\* extractors in the order info, components, variables, functions (one graph
\* extraction per function), then one graph extraction per non-null ubergraph
\* page in page order, then the construction script's; event_graphs holds the
\* pages' entries in page order and then, last, the construction script's entry
\* if there is one.
C7_AssemblyOrder ==
    Succeeded =>
        LET pages == SelectSeq(Blueprint.UbergraphPages, NotNull)
            eg == response.event_graphs
            nf == Len(response.functions)
        IN  /\ Sections \subseteq DOMAIN response
            /\ Len(calls) = 4 + nf + Len(eg)
            /\ [i \in 1..4 |-> calls[i].fn] =
                  <<"ExtractBlueprintInfo", "ExtractComponents",
                    "ExtractVariables", "ExtractFunctions">>
            /\ \A i \in 5..Len(calls) : calls[i].fn = "ExtractGraphData"
            /\ \A k \in 1..nf : graphHeap[calls[4 + k].graph].Name = response.functions[k].name
            /\ Len(eg) \in {Len(pages), Len(pages) + 1}
            /\ \A k \in 1..Len(pages) :
                  /\ eg[k].type = "event_graph"
                  /\ eg[k].name = graphHeap[pages[k]].Name
                  /\ calls[4 + nf + k].graph = pages[k]
            /\ Len(eg) = Len(pages) + 1 =>
                  /\ eg[Len(eg)].type = "construction_script"
                  /\ graphHeap[calls[Len(calls)].graph].Name = "UserConstructionScript"
                  /\ calls[Len(calls)].graph \in Range(Blueprint.FunctionGraphs)

\* C7's case: the ubergraph pages hold a graph and a null entry, and the document
\* lists the page's entry and then the construction script's.
C7_Witness ==
    /\ Succeeded
    /\ Null \in Range(Blueprint.UbergraphPages)
    /\ Len(response.event_graphs) = 2
    /\ response.event_graphs[1].type = "event_graph"
    /\ response.event_graphs[2].type = "construction_script"

\* C8: per name, the functions entries are the function graphs with an entry node
\* that are no ubergraph page, and the event_graph entries are the non-null
\* ubergraph pages, whatever the names of the other graphs.
C8_EventGraphsByIdentity ==
    Succeeded =>
        \A nm \in GraphNames :
            /\ Cardinality({i \in 1..Len(response.functions) :
                              response.functions[i].name = nm})
                 = Cardinality({g \in GraphIds :
                                  /\ graphHeap[g].Name = nm
                                  /\ g \in Range(Blueprint.FunctionGraphs)
                                  /\ g \notin Range(Blueprint.UbergraphPages)
                                  /\ HasEntryNode(g)})
            /\ Cardinality({i \in 1..Len(response.event_graphs) :
                              /\ response.event_graphs[i].type = "event_graph"
                              /\ response.event_graphs[i].name = nm})
                 = Cardinality({j \in 1..Len(Blueprint.UbergraphPages) :
                                  /\ Blueprint.UbergraphPages[j] # Null
                                  /\ graphHeap[Blueprint.UbergraphPages[j]].Name = nm})

\* C8's case: an ubergraph page with a function-entry node, and a function graph
\* of the same name with one; the page is the one event graph and the function
\* graph the one function.
C8_Witness ==
    /\ Succeeded
    /\ \E u \in Range(Blueprint.UbergraphPages) \ {Null},
          f \in Range(Blueprint.FunctionGraphs) \ {Null} :
          /\ graphHeap[u].Name = graphHeap[f].Name
          /\ HasEntryNode(u)
          /\ HasEntryNode(f)
    /\ Len(response.functions) = 1
    /\ Len(response.event_graphs) = 1

\* ------------------------------------------------------------ properties: function signatures
Min(S) == CHOOSE x \in S : \A y \in S : x <= y

\* The positions of a pin list that hold a pin of direction dir that is no
\* execution pin.
ParamPositions(pins, dir) ==
    {j \in 1..Len(pins) :
        /\ pins[j] # Null
        /\ pinHeap[pins[j]].Direction = dir
        /\ pinHeap[pins[j]].PinCategory # PC_Exec}

\* params holds one item per such position, in position order, with the pin's
\* name and category.
ListsParams(params, pins, dir) ==
    LET pos == ParamPositions(pins, dir)
    IN  /\ Len(params) = Cardinality(pos)
        /\ \A j \in pos :
              LET k == Cardinality({i \in pos : i <= j})
              IN  /\ params[k].name = pinHeap[pins[j]].PinName
                  /\ params[k].type = pinHeap[pins[j]].PinCategory

PositionsOfClass(nodes, class) ==
    {k \in 1..Len(nodes) : nodes[k] # Null /\ class \in nodeHeap[nodes[k]].Casts}

\* C9: a function's inputs are its first entry node's non-null output-direction
\* non-execution pins in pin order, its outputs the input-direction non-execution
\* pins of the first function-result node of the node list (none without a result
\* node), and local_variables has one item per local variable of the entry node.
C9_FunctionSignature ==
    Succeeded =>
        \A i \in 1..Len(response.functions) :
            LET f == response.functions[i]
                nodes == graphHeap[FunctionSources(Blueprint)[i]].Nodes
                entries == PositionsOfClass(nodes, "K2Node_FunctionEntry")
                results == PositionsOfClass(nodes, "K2Node_FunctionResult")
                entry == nodes[Min(entries)]
            IN  /\ ListsParams(f.inputs, nodeHeap[entry].Pins, EGPD_Output)
                /\ IF results = {} THEN f.outputs = <<>>
                   ELSE ListsParams(f.outputs, nodeHeap[nodes[Min(results)]].Pins, EGPD_Input)
                /\ Len(f.local_variables) = Len(nodeHeap[entry].LocalVariables)
                /\ \A k \in 1..Len(f.local_variables) :
                      f.local_variables[k].name = nodeHeap[entry].LocalVariables[k].VarName

\* C9's case: a function of two inputs, one output and no local variable, whose
\* entry node also has an execution pin and whose graph has a second result node
\* with an input-direction data pin.
C9_Witness ==
    /\ Succeeded
    /\ Len(response.functions) = 1
    /\ Len(response.functions[1].inputs) = 2
    /\ Len(response.functions[1].outputs) = 1
    /\ Len(response.functions[1].local_variables) = 0
    /\ LET nodes == graphHeap[1].Nodes
           results == PositionsOfClass(nodes, "K2Node_FunctionResult")
       IN  /\ Cardinality(results) = 2
           /\ \A k \in results : ParamPositions(nodeHeap[nodes[k]].Pins, EGPD_Input) # {}
           /\ \E k \in PositionsOfClass(nodes, "K2Node_FunctionEntry") :
                 \E j \in 1..Len(nodeHeap[nodes[k]].Pins) :
                     /\ nodeHeap[nodes[k]].Pins[j] # Null
                     /\ pinHeap[nodeHeap[nodes[k]].Pins[j]].PinCategory = PC_Exec

\* ------------------------------------------------------------ properties: the component tree
RECURSIVE Ancestors(_, _, _)
\* The components reached from the components of S by following parent_component
\* to the components of that name, in at most n steps.
Ancestors(cs, S, n) ==
    IF n = 0 THEN {}
    ELSE LET up == {j \in 1..Len(cs) : \E i \in S : cs[j].name = cs[i].parent_component}
         IN  up \cup Ancestors(cs, up, n - 1)

\* C5: each component's parent_component is "None" or the name of another
\* component of the same array, and no component is its own ancestor.
C5_ComponentTree ==
    Succeeded =>
        LET cs == response.components
        IN  \A i \in 1..Len(cs) :
                /\ \/ cs[i].parent_component = "None"
                   \/ \E j \in 1..Len(cs) :
                         j # i /\ cs[j].name = cs[i].parent_component
                /\ i \notin Ancestors(cs, {i}, Len(cs))

\* ------------------------------------------------------------ properties: variables
\* C11: a variable's replication is "None" when CPF_Net is clear (whatever its
\* notify-function name), "Replicated" when it is set and no notify function is
\* named, "RepNotify" when it is set and one is named; rep_notify_function is
\* present iff replication is "RepNotify"; an array variable has container_type
\* "array".
C11_ReplicationClass ==
    Succeeded =>
        /\ Len(response.variables) = Len(Blueprint.NewVariables)
        /\ \A i \in 1..Len(response.variables) :
              LET v == Blueprint.NewVariables[i]
                  d == response.variables[i]
              IN  /\ ("CPF_Net" \notin v.PropertyFlags) => d.replication = "None"
                  /\ ("CPF_Net" \in v.PropertyFlags /\ v.RepNotifyFunc = NAME_None)
                        => d.replication = "Replicated"
                  /\ ("CPF_Net" \in v.PropertyFlags /\ v.RepNotifyFunc # NAME_None)
                        => d.replication = "RepNotify"
                  /\ HasField(d, "rep_notify_function") <=> d.replication = "RepNotify"
                  /\ HasField(d, "rep_notify_function")
                        => d.rep_notify_function = v.RepNotifyFunc
                  /\ v.ContainerType = "EPinContainerType::Array"
                        => d.type_info.container_type = "array"

\* C11's case: a replicated array variable with a notify function, beside a
\* variable that names a notify function with CPF_Net clear.
C11_Witness ==
    /\ Succeeded
    /\ \E i \in 1..Len(response.variables) :
          /\ Blueprint.NewVariables[i].ContainerType = "EPinContainerType::Array"
          /\ response.variables[i].type_info.container_type = "array"
          /\ response.variables[i].replication = "RepNotify"
          /\ HasField(response.variables[i], "rep_notify_function")
    /\ \E i \in 1..Len(response.variables) :
          /\ Blueprint.NewVariables[i].RepNotifyFunc # NAME_None
          /\ response.variables[i].replication = "None"

\* C13: variables has one record per declared variable, the i-th with the name
\* and the guid of the i-th declaration.
C13_OneRecordPerVariable ==
    Succeeded =>
        /\ Len(response.variables) = Len(Blueprint.NewVariables)
        /\ \A i \in 1..Len(response.variables) :
              /\ response.variables[i].name = Blueprint.NewVariables[i].VarName
              /\ response.variables[i].guid = GuidToString(Blueprint.NewVariables[i].VarGuid)

\* C13's case: two declarations of different names, and a document of two
\* records.
C13_Witness ==
    /\ Succeeded
    /\ Len(Blueprint.NewVariables) = 2
    /\ Blueprint.NewVariables[1].VarName # Blueprint.NewVariables[2].VarName
    /\ Len(response.variables) = 2

\* ------------------------------------------------------------ properties: components
\* The positions of the component-node list that hold a node with a template.
TemplatePositions(ns) ==
    {j \in 1..Len(ns) : ns[j] # None /\ ns[j][1].ComponentTemplate # None}

\* C12: components has one record per component node with a non-null template,
\* in list order (null nodes and null templates are skipped); a record has
\* transform iff its template is a scene component, mesh_properties iff it is a
\* static-mesh component, light_properties iff it is a light component.
C12_OneRecordPerTemplate ==
    Succeeded =>
        IF Blueprint.SimpleConstructionScript = None THEN response.components = <<>>
        ELSE LET ns == GetAllNodes(Blueprint)
                 pos == TemplatePositions(ns)
                 cs == response.components
             IN  /\ Len(cs) = Cardinality(pos)
                 /\ \A j \in pos :
                       LET d == cs[Cardinality({i \in pos : i <= j})]
                           cls == ns[j][1].ComponentTemplate[1]
                       IN  /\ d.name = ns[j][1].VariableName
                           /\ d.type = cls
                           /\ HasField(d, "transform")
                                 <=> "SceneComponent" \in ComponentBases(cls)
                           /\ HasField(d, "mesh_properties")
                                 <=> "StaticMeshComponent" \in ComponentBases(cls)
                           /\ HasField(d, "light_properties")
                                 <=> "LightComponent" \in ComponentBases(cls)

\* C12's case: a node without template is followed by a static-mesh component,
\* whose record is the only one and has transform and mesh_properties and no
\* light_properties.
C12_Witness ==
    /\ Succeeded
    /\ Blueprint.SimpleConstructionScript # None
    /\ Len(GetAllNodes(Blueprint)) = 2
    /\ GetAllNodes(Blueprint)[1] # None
    /\ GetAllNodes(Blueprint)[1][1].ComponentTemplate = None
    /\ Len(response.components) = 1
    /\ response.components[1].type = "StaticMeshComponent"
    /\ HasField(response.components[1], "transform")
    /\ HasField(response.components[1], "mesh_properties")
    /\ ~HasField(response.components[1], "light_properties")

\* ------------------------------------------------------------ properties: null references
NonNullPositions(xs) == {j \in 1..Len(xs) : xs[j] # Null}

Rank(pos, j) == Cardinality({i \in pos : i <= j})

\* The link-list entries of the non-null output pins of the listed nodes of
\* graph g whose target is non-null and has an owning node.
EmittedLinkEntries(g) ==
    {e \in (Range(graphHeap[g].Nodes) \ {Null}) \X PinIds \X (1..MaxLinks) :
        /\ e[2] \in Range(nodeHeap[e[1]].Pins)
        /\ pinHeap[e[2]].Direction = EGPD_Output
        /\ e[3] <= Len(pinHeap[e[2]].LinkedTo)
        /\ pinHeap[e[2]].LinkedTo[e[3]] # Null
        /\ pinHeap[pinHeap[e[2]].LinkedTo[e[3]]].OwningNode # Null}

\* The document of graph g has a record for every non-null node, in list order,
\* with a record for every non-null pin, in pin order, and a connection for every
\* link entry with a target.
GraphFullyEmitted(d, g) ==
    LET ns == graphHeap[g].Nodes
        pos == NonNullPositions(ns)
    IN  /\ Len(d.nodes) = Cardinality(pos)
        /\ \A j \in pos :
              LET nd == d.nodes[Rank(pos, j)]
                  ps == nodeHeap[ns[j]].Pins
                  ppos == NonNullPositions(ps)
              IN  /\ nd.id = GuidToString(nodeHeap[ns[j]].NodeGuid)
                  /\ Len(nd.pins) = Cardinality(ppos)
                  /\ \A m \in ppos : nd.pins[Rank(ppos, m)].id = ps[m]
        /\ Len(d.connections) = Cardinality(EmittedLinkEntries(g))

\* C14: whatever null node, pin, link-target, graph, component-node or template
\* references the model holds, a request for the blueprint is answered with
\* success = true and all sections, and every non-null ubergraph page, node, pin,
\* link and component with a template is emitted.
C14_NullsAreSkipped ==
    AskedFor("BP_Test") =>
        /\ Succeeded
        /\ Sections \subseteq DOMAIN response
        /\ LET pages == Blueprint.UbergraphPages
               pos == NonNullPositions(pages)
           IN  /\ Len(response.event_graphs) >= Cardinality(pos)
               /\ \A j \in pos :
                     /\ response.event_graphs[Rank(pos, j)].name = graphHeap[pages[j]].Name
                     /\ GraphFullyEmitted(response.event_graphs[Rank(pos, j)].graph, pages[j])
        /\ LET ns == GetAllNodes(Blueprint)
               pos == TemplatePositions(ns)
           IN  /\ Len(response.components) = Cardinality(pos)
               /\ \A j \in pos :
                     response.components[Rank(pos, j)].name = ns[j][1].VariableName

\* C14's case: the page's node list, a pin list, a link list, the ubergraph
\* pages and the component-node list each hold a null entry before a non-null
\* one or beside one, a component node has no template, and the document has
\* both nodes, one connection, and one component.
C14_Witness ==
    /\ Succeeded
    /\ graphHeap[1].Nodes[1] = Null
    /\ \E n \in NodeIds : nodeHeap[n].Pins[1] = Null
    /\ \E p \in PinIds : Len(pinHeap[p].LinkedTo) = 2 /\ pinHeap[p].LinkedTo[1] = Null
                            /\ pinHeap[p].LinkedTo[2] # Null
    /\ Null \in Range(Blueprint.UbergraphPages)
    /\ Null \in Range(Blueprint.FunctionGraphs)
    /\ LET ns == GetAllNodes(Blueprint)
       IN  /\ Len(ns) = 3
           /\ ns[1] = None
           /\ ns[2] # None /\ ns[2][1].ComponentTemplate = None
           /\ ns[3] # None /\ ns[3][1].ComponentTemplate # None
    /\ Len(response.event_graphs) = 1
    /\ Len(response.event_graphs[1].graph.nodes) = 2
    /\ Len(response.event_graphs[1].graph.connections) = 1
    /\ Len(response.components) = 1

Captured ==
    LET n == Len(serialized)
        k == IF n < LogCaptureDevice.MaxEntries THEN n ELSE LogCaptureDevice.MaxEntries
    IN  SubSeq(serialized, n - k + 1, n)

\* The captured entries that pass the filters, oldest first.
Matching(SeverityFilter, CategoryFilter) ==
    LET Pass(e) == PassesFilters(e, SeverityFilter, CategoryFilter)
    IN  SelectSeq(Captured, Pass)

\* Thread t has returned from GetLogEntries.
Returned(t) == threads[t].op = "GetLogEntries" /\ threads[t].pc = "idle"

\* C16: GetLogEntries with limit N returns at most N entries, and when more than
\* N captured entries pass the filters, the N most recent of them, oldest first.
C16_MostRecentWithinLimit ==
    \A t \in Threads :
        Returned(t) =>
            LET q == threads[t].local[1]
                out == threads[t].ret[1]
                m == Matching(q.SeverityFilter, q.CategoryFilter)
                N == q.MaxEntriesToReturn
            IN  /\ Len(out) <= N
                /\ Len(m) > N => out = SubSeq(m, Len(m) - N + 1, Len(m))

\* C17: after n Serialize calls on a device of capacity M the buffer holds the
\* last min(n, M) serialized entries and no more than M, and GetLogEntries with
\* severity "All", no category filter and a limit of M or more gives them oldest
\* first.
C17_BufferHoldsLastEntries ==
    LET M == LogCaptureDevice.MaxEntries
        n == Len(serialized)
    IN  /\ Len(LogCaptureDevice.LogEntries) = (IF n < M THEN n ELSE M)
        /\ Range(LogCaptureDevice.LogEntries) = Range(Captured)
        /\ \A N \in M..(M + 1) : ReadEntries(LogCaptureDevice, N, "All", <<>>) = Captured
        /\ \A t \in Threads :
              (/\ Returned(t)
               /\ threads[t].local[1].SeverityFilter = "All"
               /\ threads[t].local[1].CategoryFilter = <<>>
               /\ threads[t].local[1].MaxEntriesToReturn >= M)
                  => threads[t].ret[1] = Captured

\* C17's case: a device of capacity 2 or more has wrapped and its write index
\* is inside the buffer, and a GetLogEntries call with "All", no category filter
\* and a limit of the capacity has returned all the capacity's entries.
C17_Witness ==
    /\ LogCaptureDevice.MaxEntries >= 2
    /\ LogCaptureDevice.bHasWrapped
    /\ LogCaptureDevice.WriteIndex # 0
    /\ Len(serialized) > LogCaptureDevice.MaxEntries
    /\ \E t \in Threads :
          /\ Returned(t)
          /\ threads[t].local[1].SeverityFilter = "All"
          /\ threads[t].local[1].CategoryFilter = <<>>
          /\ threads[t].local[1].MaxEntriesToReturn = LogCaptureDevice.MaxEntries
          /\ Len(threads[t].ret[1]) = LogCaptureDevice.MaxEntries

\* C18: every thread that is at a read or a write of the buffer state holds the
\* critical section, the buffer never holds more than its capacity, and it holds
\* the last entries serialized (none is lost).
C18_ThreadSafe ==
    /\ \A t \in Threads :
          threads[t].pc \in {"store", "advance", "read", "total"}
              => LogCaptureDevice.CriticalSection = t
    /\ Len(LogCaptureDevice.LogEntries) <= LogCaptureDevice.MaxEntries
    /\ Range(LogCaptureDevice.LogEntries) = Range(Captured)

\* ------------------------------------------------------------ properties: orientation of connections
\* The records of document d that join pin p to pin q, in this order.
RecordsFromTo(d, p, q) ==
    {i \in 1..Len(d.connections) :
        d.connections[i].from_pin = p /\ d.connections[i].to_pin = q}

\* The entries of p's link list that are q.
Occurrences(p, q) ==
    Cardinality({k \in 1..Len(pinHeap[p].LinkedTo) : pinHeap[p].LinkedTo[k] = q})

\* The places of pin p in the pin lists of the non-null nodes of graph g.
Walks(g, p) ==
    Cardinality({ij \in (1..Len(graphHeap[g].Nodes)) \X PinIds :
        LET n == graphHeap[g].Nodes[ij[1]] IN
        /\ n # Null
        /\ ij[2] <= Len(nodeHeap[n].Pins)
        /\ nodeHeap[n].Pins[ij[2]] = p})

\* C19 as stated: in every connection record, from_pin is an output-direction pin
\* and to_pin is an input-direction pin.
C19_OutputToInput ==
    Succeeded =>
        \A d \in GraphDocs :
            \A i \in 1..Len(d.connections) :
                /\ pinHeap[d.connections[i].from_pin].Direction = EGPD_Output
                /\ pinHeap[d.connections[i].to_pin].Direction = EGPD_Input

\* C19 as amended: in every connection record of the event graph's document,
\* from_pin is an output-direction pin in the pin list of the listed node
\* from_node names, and to_pin is a pin whose owning node to_node names; the
\* records from p to q are as many as the entries q in the link list of p when
\* p is an output-direction pin of a listed node and q has an owning node, and
\* none otherwise, so a link stored only on an input-direction pin has no record.
C19_OutputSideOnly ==
    Succeeded =>
        LET d == response.event_graphs[1].graph IN
        /\ \A i \in 1..Len(d.connections) :
              LET r == d.connections[i] IN
              /\ r.from_pin \in PinIds
              /\ pinHeap[r.from_pin].Direction = EGPD_Output
              /\ \E n \in Range(graphHeap[1].Nodes) \ {Null} :
                    /\ r.from_pin \in Range(nodeHeap[n].Pins)
                    /\ r.from_node = GuidToString(nodeHeap[n].NodeGuid)
              /\ r.to_pin \in PinIds
              /\ pinHeap[r.to_pin].OwningNode # Null
              /\ r.to_node = GuidToString(nodeHeap[pinHeap[r.to_pin].OwningNode].NodeGuid)
        /\ \A p, q \in PinIds :
              Cardinality(RecordsFromTo(d, p, q)) =
                  IF pinHeap[p].Direction = EGPD_Output /\ pinHeap[q].OwningNode # Null
                  THEN Walks(1, p) * Occurrences(p, q)
                  ELSE 0

\* C19's case: one link stored on an output pin of a listed node only, to an
\* input pin, and one link stored on an input pin only; the document holds the
\* one record of the first.
C19_Witness ==
    /\ Succeeded
    /\ LinkEntries = 2
    /\ \E p, q, r, s \in PinIds :
          /\ pinHeap[p].Direction = EGPD_Output /\ pinHeap[p].LinkedTo = <<q>>
          /\ pinHeap[q].Direction = EGPD_Input /\ pinHeap[q].OwningNode # Null
          /\ OwnerListed(1, p)
          /\ pinHeap[r].Direction = EGPD_Input /\ pinHeap[r].LinkedTo = <<s>>
          /\ pinHeap[s].OwningNode # Null
          /\ OwnerListed(1, r)
          /\ p \notin Range(pinHeap[s].LinkedTo)
          /\ Len(response.event_graphs[1].graph.connections) = 1
          /\ response.event_graphs[1].graph.connections[1].from_pin = p
          /\ response.event_graphs[1].graph.connections[1].to_pin = q

\* ------------------------------------------------------------ properties: which graphs are functions
\* The entries of functions that carry the name of graph g.
FunctionsNamed(g) ==
    {i \in 1..Len(response.functions) : response.functions[i].name = graphHeap[g].Name}

\* C20: a graph that is no event graph page has one entry in functions when its
\* node list holds a function-entry node and none when it holds no such node; the
\* entry's category, description, access specifier, inputs and local variables are
\* those of the first function-entry node of the node list.
C20_FunctionIffEntryNode ==
    Succeeded =>
        \A g \in GraphIds :
            LET nodes == graphHeap[g].Nodes
                entries == PositionsOfClass(nodes, "K2Node_FunctionEntry")
            IN  g \notin Range(Blueprint.UbergraphPages) =>
                    IF entries = {} THEN FunctionsNamed(g) = {}
                    ELSE /\ Cardinality(FunctionsNamed(g)) = 1
                         /\ \A i \in FunctionsNamed(g) :
                               LET f == response.functions[i]
                                   e == nodeHeap[nodes[Min(entries)]]
                               IN  /\ f.category = e.Category
                                   /\ f.description = e.ToolTip
                                   /\ f.access_specifier =
                                         (IF "FUNC_Private" \in e.FunctionFlags THEN "private"
                                          ELSE IF "FUNC_Protected" \in e.FunctionFlags
                                               THEN "protected" ELSE "public")
                                   /\ ListsParams(f.inputs, e.Pins, EGPD_Output)
                                   /\ Len(f.local_variables) = Len(e.LocalVariables)
                                   /\ \A k \in 1..Len(f.local_variables) :
                                         f.local_variables[k].name = e.LocalVariables[k].VarName

\* C20's case: the function graph holds a result node and then two entry nodes of
\* different category, pins and local variables, the macro graph holds no entry
\* node, and functions has the one entry of the function graph with the category
\* of the first entry node.
C20_Witness ==
    /\ Succeeded
    /\ LET nodes == graphHeap[1].Nodes
           entries == PositionsOfClass(nodes, "K2Node_FunctionEntry")
       IN  /\ Cardinality(entries) = 2
           /\ Min(entries) = 2
           /\ \E k \in entries :
                 /\ k # Min(entries)
                 /\ nodeHeap[nodes[k]].Category # nodeHeap[nodes[Min(entries)]].Category
                 /\ nodeHeap[nodes[k]].LocalVariables # <<>>
           /\ Len(response.functions) = 1
           /\ response.functions[1].name = "MyFunction"
           /\ response.functions[1].category = nodeHeap[nodes[Min(entries)]].Category
           /\ response.functions[1].local_variables = <<>>
    /\ PositionsOfClass(graphHeap[2].Nodes, "K2Node_FunctionEntry") = {}

\* ------------------------------------------------------------ properties: the construction script
\* The entries of event_graphs of type construction_script.
ConstructionEntries ==
    {i \in 1..Len(response.event_graphs) :
        response.event_graphs[i].type = "construction_script"}

\* The positions of FunctionGraphs that hold a graph named UserConstructionScript.
NamedConstructionScript ==
    {k \in 1..Len(Blueprint.FunctionGraphs) :
        /\ Blueprint.FunctionGraphs[k] # Null
        /\ graphHeap[Blueprint.FunctionGraphs[k]].Name = "UserConstructionScript"}

\* C21: the document has a construction_script entry iff some graph of
\* FunctionGraphs is named UserConstructionScript, whether or not the blueprint has
\* a SimpleConstructionScript; there is at most one such entry, and its graph is
\* the document of the first such graph in list order.
C21_ConstructionScriptIffNamedGraph ==
    Succeeded =>
        /\ (ConstructionEntries # {}) <=> (NamedConstructionScript # {})
        /\ Cardinality(ConstructionEntries) <= 1
        /\ \A i \in ConstructionEntries :
              response.event_graphs[i].graph =
                  ExtractGraphData(Blueprint.FunctionGraphs[Min(NamedConstructionScript)])

\* ------------------------------------------------------------ properties: node identity
\* C22: in the graph's document the node ids are pairwise distinct, and
\* NodeGuidToIndex maps the id of each record of nodes to that record's ordinal.
C22_NodeIdsDistinct ==
    Succeeded =>
        LET d == response.event_graphs[1].graph
            idx == NodeGuidToIndex(1)
        IN  /\ \A i, j \in 1..Len(d.nodes) : i # j => d.nodes[i].id # d.nodes[j].id
            /\ \A j \in 1..Len(d.nodes) :
                  d.nodes[j].id \in DOMAIN idx /\ idx[d.nodes[j].id] = j - 1

\* ------------------------------------------------------------ properties: per-pin link counts
RECURSIVE SumOfCounts(_)
\* The sum of connection_count over a sequence of pin records.
SumOfCounts(ps) ==
    IF ps = <<>> THEN 0 ELSE Head(ps).connection_count + SumOfCounts(Tail(ps))

\* The pin records of document d, node after node.
PinRecords(d) == Flatten([j \in 1..Len(d.nodes) |-> d.nodes[j].pins])

\* The output-direction pin records of document d.
OutputPinRecords(d) ==
    LET ps == PinRecords(d)
    IN  SelectSeq(ps, LAMBDA r : r.direction = "output")

\* C23: every pin record's connection_count is the length of the pin's link list,
\* null and owner-less targets counted, for input and output pins; the sum of
\* connection_count over the output-direction pin records is at least the graph's
\* connection_count, and equal to it iff every link-list entry of those pins is a
\* non-null pin with an owning node.
C23_PerPinLinkCount ==
    Succeeded =>
        LET d == response.event_graphs[1].graph
            outs == OutputPinRecords(d)
        IN  /\ \A i \in 1..Len(PinRecords(d)) :
                  PinRecords(d)[i].connection_count = Len(pinHeap[PinRecords(d)[i].id].LinkedTo)
            /\ SumOfCounts(outs) >= d.connection_count
            /\ (SumOfCounts(outs) = d.connection_count) <=>
                  \A i \in 1..Len(outs) :
                      \A k \in 1..Len(pinHeap[outs[i].id].LinkedTo) :
                          LET t == pinHeap[outs[i].id].LinkedTo[k]
                          IN  t # Null /\ pinHeap[t].OwningNode # Null

\* C23's case: an output pin whose only link-list entry is null and an input pin
\* with one link; both records count 1 and the graph has no connection.
C23_Witness ==
    /\ Succeeded
    /\ LET d == response.event_graphs[1].graph
       IN  /\ d.connection_count = 0
           /\ \E i, j \in 1..Len(PinRecords(d)) :
                 /\ PinRecords(d)[i].direction = "output"
                 /\ PinRecords(d)[i].connection_count = 1
                 /\ pinHeap[PinRecords(d)[i].id].LinkedTo = <<Null>>
                 /\ PinRecords(d)[j].direction = "input"
                 /\ PinRecords(d)[j].connection_count = 1

\* ------------------------------------------------------------ properties: replication conditions
\* The conditions with a name of their own in the document, and that name.
ConditionTable ==
    {<<"COND_InitialOnly", "InitialOnly">>, <<"COND_OwnerOnly", "OwnerOnly">>,
     <<"COND_SkipOwner", "SkipOwner">>, <<"COND_SimulatedOnly", "SimulatedOnly">>,
     <<"COND_AutonomousOnly", "AutonomousOnly">>,
     <<"COND_SimulatedOrPhysics", "SimulatedOrPhysics">>,
     <<"COND_InitialOrOwner", "InitialOrOwner">>, <<"COND_Custom", "Custom">>,
     <<"COND_ReplayOrOwner", "ReplayOrOwner">>, <<"COND_ReplayOnly", "ReplayOnly">>,
     <<"COND_SimulatedOnlyNoReplay", "SimulatedOnlyNoReplay">>,
     <<"COND_SimulatedOrPhysicsNoReplay", "SimulatedOrPhysicsNoReplay">>,
     <<"COND_SkipReplay", "SkipReplay">>}

\* The conditions the document names otherwise than "None".
NamedConditions == {c \in ReplicationConditions : RepConditionName(c) # "None"}

\* Every variable record has replication_condition iff CPF_Net is set.
ConditionIffReplicated ==
    /\ Len(response.variables) = Len(Blueprint.NewVariables)
    /\ \A i \in 1..Len(response.variables) :
          HasField(response.variables[i], "replication_condition")
              <=> "CPF_Net" \in Blueprint.NewVariables[i].PropertyFlags

\* C24 as stated: replication_condition is present iff CPF_Net is set, and the
\* conditions that are given a name of their own are exactly 12.
C24_TwelveConditions ==
    Succeeded =>
        /\ ConditionIffReplicated
        /\ Cardinality(NamedConditions) = 12

\* C24 as amended: replication_condition is present iff CPF_Net is set; it is the
\* table's name for each of the 13 conditions of the table, and "None" for every
\* other condition value.
C24_ThirteenConditions ==
    Succeeded =>
        /\ ConditionIffReplicated
        /\ Cardinality(ConditionTable) = 13
        /\ \A i \in 1..Len(response.variables) :
              LET v == Blueprint.NewVariables[i]
                  d == response.variables[i]
              IN  HasField(d, "replication_condition") =>
                     /\ \A e \in ConditionTable :
                           v.ReplicationCondition = e[1] => d.replication_condition = e[2]
                     /\ (\A e \in ConditionTable : v.ReplicationCondition # e[1])
                           => d.replication_condition = "None"

\* C24's case: a replicated variable of condition COND_SkipReplay, named
\* "SkipReplay" in the document, and a replicated variable of condition COND_Never,
\* whose condition the document gives as "None".
C24_Witness ==
    /\ Succeeded
    /\ \E i, j \in 1..Len(response.variables) :
          /\ Blueprint.NewVariables[i].ReplicationCondition = "COND_SkipReplay"
          /\ HasField(response.variables[i], "replication_condition")
          /\ response.variables[i].replication_condition = "SkipReplay"
          /\ Blueprint.NewVariables[j].ReplicationCondition = "COND_Never"
          /\ HasField(response.variables[j], "replication_condition")
          /\ response.variables[j].replication_condition = "None"

\* ------------------------------------------------------------ properties: values outside the enumerations
\* C25: a request is answered success = true whatever the enumeration values;
\* every variable is emitted, with container_type "none" when its container tag
\* is none of array, set and map; every node is emitted, with node_category
\* "other" when it is of none of the classified classes; and blueprint_type is
\* "Normal" when the blueprint's type is none of the six named ones.
C25_UnrecognizedFallsBack ==
    ~Idle =>
        /\ Succeeded
        /\ Len(response.variables) = Len(Blueprint.NewVariables)
        /\ \A i \in 1..Len(response.variables) :
              Blueprint.NewVariables[i].ContainerType \notin
                  {"EPinContainerType::Array", "EPinContainerType::Set",
                   "EPinContainerType::Map"}
                  => response.variables[i].type_info.container_type = "none"
        /\ LET d == response.event_graphs[1].graph
               ns == graphHeap[1].Nodes
           IN  /\ Len(d.nodes) = Len(ns)
               /\ \A j \in 1..Len(ns) :
                     nodeHeap[ns[j]].Casts \cap Range(ClassifiedClasses) = {}
                         => d.nodes[j].node_category = "other"
        /\ Blueprint.BlueprintType \notin
              {"BPTYPE_Normal", "BPTYPE_Const", "BPTYPE_MacroLibrary", "BPTYPE_Interface",
               "BPTYPE_LevelScript", "BPTYPE_FunctionLibrary"}
              => response.blueprint_info.blueprint_type = "Normal"

\* C25's case: a blueprint of a type the switch does not name, with a variable of
\* an unknown container tag and a node of no classified class, all in a document
\* of success = true.
C25_Witness ==
    /\ Succeeded
    /\ Blueprint.BlueprintType = "BPTYPE_MAX"
    /\ response.blueprint_info.blueprint_type = "Normal"
    /\ \E i \in 1..Len(response.variables) :
          /\ Blueprint.NewVariables[i].ContainerType = "EPinContainerType::Unknown"
          /\ response.variables[i].type_info.container_type = "none"
    /\ \E j \in 1..Len(response.event_graphs[1].graph.nodes) :
          /\ nodeHeap[graphHeap[1].Nodes[j]].Casts = {}
          /\ response.event_graphs[1].graph.nodes[j].node_category = "other"

\* ------------------------------------------------------------ properties: the entry node's flags
\* The entry node that function graph 1 takes its signature from.
SignatureEntry == nodeHeap[graphHeap[1].Nodes[
                      Min(PositionsOfClass(graphHeap[1].Nodes, "K2Node_FunctionEntry"))]]

\* C26: a function's access_specifier is one of public, private and protected:
\* "private" whenever the entry node's private bit is set, the protected bit set
\* or not, "protected" when the protected bit is set and the private bit is not,
\* and "public" otherwise.
C26_AccessSpecifierOrder ==
    Succeeded =>
        \A i \in 1..Len(response.functions) :
            LET a == response.functions[i].access_specifier
                fl == SignatureEntry.FunctionFlags
            IN  /\ a \in {"public", "private", "protected"}
                /\ a = "private" <=> "FUNC_Private" \in fl
                /\ a = "protected" <=> ("FUNC_Protected" \in fl /\ "FUNC_Private" \notin fl)
                /\ a = "public" <=> ("FUNC_Protected" \notin fl /\ "FUNC_Private" \notin fl)

\* C26's case: an entry node with the private and the protected bit both set, and
\* a function reported private.
C26_Witness ==
    /\ Succeeded
    /\ Len(response.functions) = 1
    /\ {"FUNC_Private", "FUNC_Protected"} \subseteq SignatureEntry.FunctionFlags
    /\ response.functions[1].access_specifier = "private"

\* C30: a function's is_pure is true exactly when the entry node's pure flag is
\* set, whatever the entry node's bCallInEditor.
C30_IsPureFromPureFlag ==
    Succeeded =>
        \A i \in 1..Len(response.functions) :
            response.functions[i].is_pure
                <=> "FUNC_BlueprintPure" \in SignatureEntry.FunctionFlags

\* ------------------------------------------------------------ properties: requests that are refused
\* The request being answered never reaches the lookup: its command type is not
\* get_blueprint_data, or its parameters hold no blueprint_name.
Refused ==
    /\ ~Idle
    /\ \/ request.CommandType # "get_blueprint_data"
       \/ ~HasField(request.Params, "blueprint_name")

\* C27: a request of another command type, or without blueprint_name, is answered
\* success = false with a message and none of the document's sections, and the
\* handler has looked up no blueprint and called no extractor; a
\* get_blueprint_data request with blueprint_name looks that name up.
C27_RefusedWithoutLookup ==
    ~Idle =>
        LET r == HandleCommandResult(request.CommandType, request.Params)
        IN  IF Refused
            THEN /\ response.success = FALSE
                 /\ HasField(response, "message")
                 /\ (DOMAIN response) \cap Sections = {}
                 /\ calls = <<>>
                 /\ r.lookups = <<>>
            ELSE r.lookups = <<request.Params.blueprint_name>>

\* C27's case: a request of another command type that names the blueprint, which
\* has graphs, has been refused.
C27_Witness ==
    /\ Refused
    /\ request.CommandType = "get_blueprint_graph"
    /\ HasField(request.Params, "blueprint_name")
    /\ request.Params.blueprint_name = Blueprint.Name
    /\ graphHeap # <<>>
    /\ ~response.success

\* ------------------------------------------------------------ properties: the filters of GetLogEntries
\* ELogVerbosity, most severe first.
VerbosityLevel(v) ==
    CASE v = "Fatal" -> 1 [] v = "Error" -> 2 [] v = "Warning" -> 3
      [] v = "Display" -> 4 [] v = "Log" -> 5 [] v = "Verbose" -> 6
      [] v = "VeryVerbose" -> 7

\* The least severe level a severity filter lets through.
FilterThreshold(SeverityFilter) ==
    CASE SeverityFilter = "Error" -> 2
      [] SeverityFilter = "Warning" -> 3
      [] SeverityFilter = "Display" -> 5
      [] OTHER -> 7

\* Entry e satisfies the request's two filters.
Satisfies(e, q) ==
    /\ VerbosityLevel(e.Verbosity) <= FilterThreshold(q.SeverityFilter)
    /\ \/ q.CategoryFilter = <<>>
       \/ \E i \in 1..Len(e.Category) : <<e.Category[i]>> = q.CategoryFilter

\* C28: every entry GetLogEntries returns is at least as severe as the severity
\* filter asks ("Error": Error, Fatal; "Warning": also Warning; "Display": also
\* Display, Log; any other filter: every entry) and passes the category filter;
\* when fewer entries than the limit are returned, they are all the buffer's
\* entries that satisfy the two filters.
C28_SeverityThreshold ==
    \A t \in Threads :
        Returned(t) =>
            LET q == threads[t].local[1]
                out == threads[t].ret[1]
            IN  /\ \A i \in 1..Len(out) : Satisfies(out[i], q)
                /\ Len(out) < q.MaxEntriesToReturn =>
                      Range(out) = {e \in Range(Captured) : Satisfies(e, q)}

\* C28's case: the buffer holds an entry at least as severe as Error and one less
\* severe than Warning, and a request with filter "Warning" has returned one entry,
\* fewer than its limit.
C28_Witness ==
    \E t \in Threads :
        /\ Returned(t)
        /\ threads[t].local[1].SeverityFilter = "Warning"
        /\ Len(threads[t].ret[1]) = 1
        /\ threads[t].local[1].MaxEntriesToReturn > 1
        /\ VerbosityLevel(threads[t].ret[1][1].Verbosity) < 3
        /\ \E e \in Range(Captured) : VerbosityLevel(e.Verbosity) > 3

\* ------------------------------------------------------------ properties: the module's life cycle
\* C29: no destroyed device is registered with GLog and the device the module
\* points at has not been destroyed; StartupModule comes to its AddOutputDevice
\* with a device created and alive, and ShutdownModule comes to its Reset with
\* the device removed from GLog; the pointer is null and nothing of the module is
\* registered when the module is not loaded, and a GetLogCaptureDevice made then
\* returned null.
C29_RegisteredOnlyWhileAlive ==
    LET M == UnrealMCPModule IN
    /\ M.OutputDevices \cap M.Destroyed = {}
    /\ M.LogCaptureDevice # Null => M.LogCaptureDevice \notin M.Destroyed
    /\ \A t \in Threads :
          /\ threads[t] = At("StartupModule", "17")
                => /\ M.LogCaptureDevice \in 1..M.Created
                   /\ M.LogCaptureDevice \notin M.Destroyed
                   /\ M.LogCaptureDevice \notin M.OutputDevices
          /\ threads[t] = At("ShutdownModule", "33")
                => M.LogCaptureDevice \notin M.OutputDevices
          /\ (threads[t].op = "GetLogCaptureDevice" /\ threads[t].local = Some(FALSE))
                => threads[t].ret = Some(Null)
    /\ ~M.Loaded => (M.LogCaptureDevice = Null /\ M.OutputDevices = {})

====
